---- MODULE Spec2Model ----
(***************************************************************************)
(* Firebase ID-token verification (component/lib.ts, component/jwtUtils.ts) *)
(* as a state machine: verifyToken calls over the publicKeyCache,            *)
(* users and sessions tables, the provider key endpoint and a wall clock.   *)
(***************************************************************************)
EXTENDS Integers, Sequences, FiniteSets, TLC

\* ------------------------------------------------------------------ bounds
MaxStarts == 2
MaxTicks == 1
MaxDirectives == 3
\* The claims exp, iat and auth_time are absent or among 0..MaxEpoch (s).
MaxEpoch == 5
\* A token text has at most MaxTextLen characters.
MaxTextLen == 5
\* Direct calls of _upsertUser in a run.
MaxUpserts == 2
\* Direct calls of the functions on users and sessions in a run.
MaxOps == 2
\* Auth-state events delivered to the listener of FirebaseAuthProvider.
MaxEvents == 3
\* Token verifications of FirebaseAuthProvider in flight at a time.
MaxPending == 2
\* A byte sequence given to the base64url round trip has at most MaxBytes bytes.
MaxBytes == 3
\* Date.now() (ms) when the first call starts.
StartClock == 5500

\* The slots in which verifyToken calls run concurrently.
Procs == {1, 2}

\* ------------------------------------------------------- program constants
DefaultMaxAge == 3600
MsPerSecond == 1000
\* The number standing for JavaScript's undefined in a numeric field.
Undef == -1
NoStr == "undefined"
ProjectId == "proj"
IssuerPrefix == "https://securetoken.google.com/"

\* Date.now() moves by one of these amounts (ms) between two steps.
TickSizes == {1000}

\* ------------------------------------------------------------------ tokens
\* A compact JWT is the list of its '.'-separated segments.  n is the number
\* of segments token.split(".") yields; h, p and s are the first three.
\* A header segment decodes (base64url, UTF-8, JSON) or not; a decoded header
\* has alg and kid, "" standing for an absent or falsy field.  The JSON text
\* null decodes too: HdrNull is the header JSON.parse then returns.
Hdr(dec, alg, kid) == [dec |-> dec, alg |-> alg, kid |-> kid, isNull |-> FALSE]
HdrNull == [dec |-> TRUE, alg |-> "", kid |-> "", isNull |-> TRUE]

\* A payload segment decodes or not; the decoded payload is an open map of
\* which the claims and the profile fields read by verifyToken are kept.
\* Undef / NoStr stand for a field that is absent.
Claims(exp, iat, aud, iss, sub, auth, prov) ==
    [exp |-> exp, iat |-> iat, aud |-> aud, iss |-> iss, sub |-> sub,
     auth_time |-> auth, email |-> IF sub = "" THEN NoStr ELSE sub \o "@x",
     email_verified |-> NoStr, name |-> NoStr, picture |-> NoStr,
     phone_number |-> NoStr, sign_in_provider |-> prov]
Pay(dec, claims) == [dec |-> dec, claims |-> claims]

\* A signature segment decodes (base64url) or not; signer names the RSA key
\* material whose private half produced it over this token's own
\* header.payload text, "forged" when no provider key did (an altered
\* signature, or altered signed content).
Sig(dec, signer) == [dec |-> dec, signer |-> signer]

Tok(n, h, p, s) == [n |-> n, h |-> h, p |-> p, s |-> s]

GoodIss == IssuerPrefix \o ProjectId
GoodClaims(sub, exp, prov) == Claims(exp, 4, ProjectId, GoodIss, sub, 4, prov)

TokGood1 == Tok(3, Hdr(TRUE, "RS256", "k1"), Pay(TRUE, GoodClaims("u1", 9000, "password")), Sig(TRUE, "m1"))
TokGood2 == Tok(3, Hdr(TRUE, "RS256", "k2"), Pay(TRUE, GoodClaims("u2", 9000, "anonymous")), Sig(TRUE, "m2"))
TokShort == Tok(3, Hdr(TRUE, "RS256", "k1"), Pay(TRUE, GoodClaims("u1", 6, "password")), Sig(TRUE, "m1"))
TokForgedExpired == Tok(3, Hdr(TRUE, "RS256", "k1"), Pay(TRUE, GoodClaims("u1", 3, "password")), Sig(TRUE, "forged"))
TokHS256 == Tok(3, Hdr(TRUE, "HS256", "k1"), Pay(TRUE, GoodClaims("u1", 9000, "password")), Sig(TRUE, "m1"))
TokBadKey == Tok(3, Hdr(TRUE, "RS256", "k3"), Pay(TRUE, GoodClaims("u1", 9000, "password")), Sig(TRUE, "m1"))
TokTwoParts == Tok(2, Hdr(TRUE, "RS256", "k1"), Pay(TRUE, GoodClaims("u1", 9000, "password")), Sig(TRUE, "m1"))
TokBadSigSeg == Tok(3, Hdr(TRUE, "RS256", "k1"), Pay(TRUE, GoodClaims("u1", 9000, "password")), Sig(FALSE, "forged"))

Tokens == {TokGood1, TokGood2, TokShort, TokForgedExpired,
           TokHS256, TokBadKey, TokTwoParts, TokBadSigSeg}

\* --------------------------------------------------------------- jwtUtils
NoHeader == Hdr(FALSE, "", "")
NoClaims == Claims(Undef, Undef, "", "", "", Undef, NoStr)
NoSig == Sig(FALSE, "forged")

ParseFail(err) ==
    [ok |-> FALSE, err |-> err, header |-> NoHeader, payload |-> NoClaims,
     signedContent |-> <<>>, signature |-> NoSig]

\* The TypeError of reading a property of null (header.alg on a null header).
NullDeref == "TypeError: Cannot read properties of null"

\* parseJwt refusing only a token of fewer than 3 segments.
parseJwtAtLeast3(token) ==
    IF token.n < 3 THEN ParseFail("Invalid JWT: expected 3 parts")
    ELSE IF ~token.h.dec THEN ParseFail("Invalid JWT: failed to decode header")
    ELSE IF ~token.p.dec THEN ParseFail("Invalid JWT: failed to decode payload")
    ELSE IF token.h.isNull THEN ParseFail(NullDeref)
    ELSE IF token.h.alg = "" \/ token.h.kid = ""
         THEN ParseFail("Invalid JWT header: missing alg or kid")
    ELSE IF ~token.s.dec THEN ParseFail("InvalidCharacterError")
    ELSE [ok |-> TRUE, err |-> "", header |-> token.h, payload |-> token.p.claims,
          signedContent |-> <<token.h, token.p>>, signature |-> token.s]

\* parseJwt testing alg and kid as soon as the header is decoded.
parseJwtFieldsFirst(token) ==
    IF token.n # 3 THEN ParseFail("Invalid JWT: expected 3 parts")
    ELSE IF ~token.h.dec THEN ParseFail("Invalid JWT: failed to decode header")
    ELSE IF token.h.isNull THEN ParseFail(NullDeref)
    ELSE IF token.h.alg = "" \/ token.h.kid = ""
         THEN ParseFail("Invalid JWT header: missing alg or kid")
    ELSE IF ~token.p.dec THEN ParseFail("Invalid JWT: failed to decode payload")
    ELSE IF ~token.s.dec THEN ParseFail("InvalidCharacterError")
    ELSE [ok |-> TRUE, err |-> "", header |-> token.h, payload |-> token.p.claims,
          signedContent |-> <<token.h, token.p>>, signature |-> token.s]

\* parseJwt: the split, the two guarded decodes, the alg/kid check (reading
\* header.alg throws when the header is null), the signature decode (atob
\* throws on a malformed segment), signedContent.
parseJwt(token) ==
    IF token.n # 3 THEN ParseFail("Invalid JWT: expected 3 parts")
    ELSE IF ~token.h.dec THEN ParseFail("Invalid JWT: failed to decode header")
    ELSE IF ~token.p.dec THEN ParseFail("Invalid JWT: failed to decode payload")
    ELSE IF token.h.isNull THEN ParseFail(NullDeref)
    ELSE IF token.h.alg = "" \/ token.h.kid = ""
         THEN ParseFail("Invalid JWT header: missing alg or kid")
    ELSE IF ~token.s.dec THEN ParseFail("InvalidCharacterError")
    ELSE [ok |-> TRUE, err |-> "", header |-> token.h, payload |-> token.p.claims,
          signedContent |-> <<token.h, token.p>>, signature |-> token.s]

\* validateClaims failing with one reason for every rule.
validateClaimsGeneric(payload, projectId, now) ==
    IF (payload.exp = Undef \/ payload.exp = 0 \/ payload.exp <= now)
          \/ (payload.iat = Undef \/ payload.iat = 0 \/ payload.iat > now)
          \/ payload.aud # projectId
          \/ payload.iss # IssuerPrefix \o projectId
          \/ payload.sub = ""
          \/ (payload.auth_time = Undef \/ payload.auth_time > now)
        THEN "Token has expired"
    ELSE ""

\* validateClaims with the audience rule tested first.
validateClaimsAudFirst(payload, projectId, now) ==
    IF payload.aud # projectId THEN "Invalid audience"
    ELSE IF payload.exp = Undef \/ payload.exp = 0 \/ payload.exp <= now
        THEN "Token has expired"
    ELSE IF payload.iat = Undef \/ payload.iat = 0 \/ payload.iat > now
        THEN "Token issued in the future"
    ELSE IF payload.iss # IssuerPrefix \o projectId THEN "Invalid issuer"
    ELSE IF payload.sub = "" THEN "Invalid subject: sub must be a non-empty string"
    ELSE IF payload.auth_time = Undef \/ payload.auth_time > now THEN "Invalid auth_time"
    ELSE ""

\* validateClaims tolerating one second of clock skew on exp and iat.
validateClaimsSkew(payload, projectId, now) ==
    IF payload.exp = Undef \/ payload.exp = 0 \/ payload.exp < now
        THEN "Token has expired"
    ELSE IF payload.iat = Undef \/ payload.iat = 0 \/ payload.iat > now + 1
        THEN "Token issued in the future"
    ELSE IF payload.aud # projectId THEN "Invalid audience"
    ELSE IF payload.iss # IssuerPrefix \o projectId THEN "Invalid issuer"
    ELSE IF payload.sub = "" THEN "Invalid subject: sub must be a non-empty string"
    ELSE IF payload.auth_time = Undef \/ payload.auth_time > now THEN "Invalid auth_time"
    ELSE ""

\* validateClaims with now = Math.floor(Date.now() / 1000); "" when it passes.
validateClaims(payload, projectId, now) ==
    IF payload.exp = Undef \/ payload.exp = 0 \/ payload.exp <= now
        THEN "Token has expired"
    ELSE IF payload.iat = Undef \/ payload.iat = 0 \/ payload.iat > now
        THEN "Token issued in the future"
    ELSE IF payload.aud # projectId THEN "Invalid audience"
    ELSE IF payload.iss # IssuerPrefix \o projectId THEN "Invalid issuer"
    ELSE IF payload.sub = "" THEN "Invalid subject: sub must be a non-empty string"
    ELSE IF payload.auth_time = Undef \/ payload.auth_time > now THEN "Invalid auth_time"
    ELSE ""

\* A JWK: its kid, the RSA key material it carries, and whether
\* crypto.subtle.importKey accepts it (it rejects a malformed JWK).
Jwk(kid, mat, importable) == [kid |-> kid, mat |-> mat, importable |-> importable]

\* importKey accepting every JWK.
importJwkLenient(jwk) == TRUE

\* importJwk: crypto.subtle.importKey("jwk", ...) resolves for a well-formed
\* RSA JWK and rejects otherwise.
importJwk(jwk) == jwk.importable

\* crypto.subtle.verify accepting every signature that decodes.
verifyRS256SignatureDecodable(signedContent, signature, publicKey) ==
    signature.dec

\* crypto.subtle.verify: true exactly for a signature made over the signed
\* content by the private half of the imported key.
verifyRS256Signature(signedContent, signature, publicKey) ==
    signature.signer = publicKey.mat

\* ------------------------------------------------- Cache-Control parsing
\* A header value is a sequence of characters; NoHeaderValue is the null that
\* response.headers.get returns for a missing header.
Digits == {"0", "1", "2", "3", "4", "5", "6", "7", "8", "9"}

DigitVal(c) ==
    CASE c = "0" -> 0 [] c = "1" -> 1 [] c = "2" -> 2 [] c = "3" -> 3
      [] c = "4" -> 4 [] c = "5" -> 5 [] c = "6" -> 6 [] c = "7" -> 7
      [] c = "8" -> 8 [] c = "9" -> 9

MaxAgeEq == <<"m", "a", "x", "-", "a", "g", "e", "=">>

HeaderValue(text) == [null |-> FALSE, text |-> text]
NoHeaderValue == [null |-> TRUE, text |-> <<>>]

\* The longest run of digits of text that starts at position i (\d+, greedy).
RECURSIVE DigitRun(_, _)
DigitRun(text, i) ==
    IF i <= Len(text) /\ text[i] \in Digits
        THEN <<text[i]>> \o DigitRun(text, i + 1)
        ELSE <<>>

\* parseInt(digits, 10), most significant digit first.
RECURSIVE parseInt10(_, _)
parseInt10(digits, acc) ==
    IF digits = <<>> THEN acc
    ELSE parseInt10(Tail(digits), acc * 10 + DigitVal(Head(digits)))

\* The pattern anchored at the start of the text (/^max-age=(\d+)/).
matchMaxAgeAnchored(text, i) ==
    IF Len(MaxAgeEq) < Len(text)
       /\ SubSeq(text, 1, Len(MaxAgeEq)) = MaxAgeEq
       /\ DigitRun(text, Len(MaxAgeEq) + 1) # <<>>
    THEN DigitRun(text, Len(MaxAgeEq) + 1)
    ELSE <<>>

\* String.prototype.match of /max-age=(\d+)/ scanning from position i: the
\* captured digits of the leftmost match, <<>> when nothing matches.
RECURSIVE matchMaxAge(_, _)
matchMaxAge(text, i) ==
    IF i + Len(MaxAgeEq) > Len(text) THEN <<>>
    ELSE IF SubSeq(text, i, i + Len(MaxAgeEq) - 1) = MaxAgeEq
            /\ DigitRun(text, i + Len(MaxAgeEq)) # <<>>
         THEN DigitRun(text, i + Len(MaxAgeEq))
    ELSE matchMaxAge(text, i + 1)

\* parseCacheControlMaxAge; Undef is the null result.
parseCacheControlMaxAge(headerValue) ==
    IF headerValue.null \/ headerValue.text = <<>> THEN Undef
    ELSE IF matchMaxAge(headerValue.text, 1) = <<>> THEN Undef
    ELSE parseInt10(matchMaxAge(headerValue.text, 1), 0)

\* verifyToken's  parseCacheControlMaxAge(cacheControl) ?? 3600.
maxAgeOf(cacheControl) ==
    IF parseCacheControlMaxAge(cacheControl) = Undef THEN DefaultMaxAge
    ELSE parseCacheControlMaxAge(cacheControl)

\* Cache-Control directives a key endpoint may send, as text.
DirPublic == <<"p", "u", "b", "l", "i", "c">>
DirNoCache == <<"n", "o", "-", "c", "a", "c", "h", "e">>
DirSMaxage == <<"s", "-", "m", "a", "x", "a", "g", "e", "=", "9">>
DirMaxAge(digits) == MaxAgeEq \o digits
DigitStrings == {<<"0">>, <<"1">>, <<"0", "7">>, <<"6", "0">>}
Directives ==
    {DirPublic, DirNoCache, DirSMaxage, DirMaxAge(<<>>)}
        \cup {DirMaxAge(d) : d \in DigitStrings}

\* The header text of a directive list: the directives joined by ", ".
RECURSIVE JoinDirectives(_)
JoinDirectives(ds) ==
    IF ds = <<>> THEN <<>>
    ELSE IF Len(ds) = 1 THEN ds[1]
    ELSE ds[1] \o <<",", " ">> \o JoinDirectives(Tail(ds))

DirectiveLists == UNION {[1..k -> Directives] : k \in 0..MaxDirectives}

\* ------------------------------------------------- provider key endpoint
\* A response body: whether JSON.parse accepts it, whether the parsed value
\* has a keys array, and that array.
Body(json, hasKeys, keys) == [json |-> json, hasKeys |-> hasKeys, keys |-> keys]
NoBody == Body(FALSE, FALSE, <<>>)
BodyA == Body(TRUE, TRUE, <<Jwk("k1", "m1", TRUE), Jwk("k2", "m2", TRUE)>>)
BodyB == Body(TRUE, TRUE, <<Jwk("k1", "m9", TRUE), Jwk("k2", "m2", FALSE)>>)
BodyJunk == Body(FALSE, FALSE, <<>>)

\* What fetch(GOOGLE_JWK_URL) can give: status "ok" (response.ok), "http500"
\* (a non-success status) or "neterr" (the fetch promise rejects).
Response(status, body, cacheControl) ==
    [status |-> status, body |-> body, cacheControl |-> cacheControl]
NoResponse == Response("none", NoBody, NoHeaderValue)
Responses ==
    {Response("ok", BodyA, HeaderValue(JoinDirectives(<<DirPublic, DirMaxAge(<<"0">>)>>))),
     Response("ok", BodyB, NoHeaderValue),
     Response("ok", BodyJunk, HeaderValue(DirNoCache)),
     Response("http500", NoBody, NoHeaderValue),
     Response("neterr", NoBody, NoHeaderValue)}
\* The answers of the endpoint while calls race: its key set, or an error.
RaceResponses == {r \in Responses : r.body \in {BodyA, BodyB} \/ r.status = "http500"}

\* ------------------------------------------------------------------ tables
\* publicKeyCache rows in creation order.
CacheRow(keys, fetchedAt, expiresAt) ==
    [present |-> TRUE, keys |-> keys, fetchedAt |-> fetchedAt, expiresAt |-> expiresAt]
NoRow == [present |-> FALSE, keys |-> NoBody, fetchedAt |-> 0, expiresAt |-> 0]

\* _getCachedPublicKeys: query("publicKeyCache").order("desc").first().
getCachedPublicKeys(table) ==
    IF table = <<>> THEN NoRow ELSE table[Len(table)]

\* _setCachedPublicKeys whose delete loop commits on its own: a call that
\* finds rows leaves the table empty.
setCachedPublicKeysDeleteAlone(table, args) ==
    IF table # <<>> THEN <<>>
    ELSE <<CacheRow(args.keys, args.fetchedAt, args.expiresAt)>>

\* _setCachedPublicKeys without the delete loop (a row is only added).
setCachedPublicKeysKeepOld(table, args) ==
    Append(table, CacheRow(args.keys, args.fetchedAt, args.expiresAt))

\* _setCachedPublicKeys: delete every existing row, insert the new one, in
\* one mutation (one store transaction).
setCachedPublicKeys(table, args) ==
    <<CacheRow(args.keys, args.fetchedAt, args.expiresAt)>>

UserArgs(payload) ==
    [firebaseUid |-> payload.sub,
     email |-> payload.email,
     emailVerified |-> payload.email_verified,
     displayName |-> payload.name,
     photoURL |-> payload.picture,
     phoneNumber |-> payload.phone_number,
     providerId |-> payload.sign_in_provider,
     isAnonymous |-> IF payload.sign_in_provider = "anonymous" THEN "true" ELSE NoStr,
     lastSignInTime |-> IF payload.auth_time = Undef \/ payload.auth_time = 0
                        THEN Undef ELSE payload.auth_time * MsPerSecond]

PatchStr(old, new) == IF new # NoStr THEN new ELSE old
PatchNum(old, new) == IF new # Undef THEN new ELSE old

PatchUser(row, args) ==
    [id |-> row.id,
     firebaseUid |-> row.firebaseUid,
     email |-> PatchStr(row.email, args.email),
     emailVerified |-> PatchStr(row.emailVerified, args.emailVerified),
     displayName |-> PatchStr(row.displayName, args.displayName),
     photoURL |-> PatchStr(row.photoURL, args.photoURL),
     phoneNumber |-> PatchStr(row.phoneNumber, args.phoneNumber),
     providerId |-> PatchStr(row.providerId, args.providerId),
     isAnonymous |-> PatchStr(row.isAnonymous, args.isAnonymous),
     disabled |-> row.disabled,
     lastSignInTime |-> PatchNum(row.lastSignInTime, args.lastSignInTime),
     customClaims |-> row.customClaims]

NewUser(id, args) ==
    [id |-> id,
     firebaseUid |-> args.firebaseUid,
     email |-> args.email,
     emailVerified |-> args.emailVerified,
     displayName |-> args.displayName,
     photoURL |-> args.photoURL,
     phoneNumber |-> args.phoneNumber,
     providerId |-> args.providerId,
     isAnonymous |-> args.isAnonymous,
     disabled |-> NoStr,
     lastSignInTime |-> args.lastSignInTime,
     customClaims |-> NoStr]

UsersByUid(table, uid) == {i \in 1..Len(table) : table[i].firebaseUid = uid}

\* _upsertUser inserting a row on every call.
upsertUserAlwaysInsert(table, args, freshId) ==
    [err |-> FALSE, users |-> Append(table, NewUser(freshId, args)), id |-> freshId]

\* _upsertUser replacing the row of the uid by a new row with a fresh id.
upsertUserReplace(table, args, freshId) ==
    LET Other(u) == u.firebaseUid # args.firebaseUid IN
    [err |-> FALSE, users |-> Append(SelectSeq(table, Other), NewUser(freshId, args)),
     id |-> freshId]

\* _upsertUser: [err, users, id].  unique() throws when the index holds more
\* than one row of the uid; an existing row is patched, else one is inserted.
upsertUser(table, args, freshId) ==
    LET hits == UsersByUid(table, args.firebaseUid) IN
    IF Cardinality(hits) > 1
        THEN [err |-> TRUE, users |-> table, id |-> 0]
    ELSE IF hits # {}
        THEN LET i == CHOOSE j \in hits : TRUE IN
             [err |-> FALSE,
              users |-> [table EXCEPT ![i] = PatchUser(table[i], args)],
              id |-> table[i].id]
    ELSE [err |-> FALSE, users |-> Append(table, NewUser(freshId, args)), id |-> freshId]

SessionRow(id, args) ==
    [id |-> id, userId |-> args.userId, firebaseUid |-> args.firebaseUid,
     expiresAt |-> args.expiresAt, createdAt |-> args.createdAt,
     lastActiveAt |-> args.lastActiveAt]

\* _createSession pruning the expired sessions of every user.
createSessionPruneAll(table, args, freshId, now) ==
    LET Kept(s) == ~(s.expiresAt < now) IN
    Append(SelectSeq(table, Kept), SessionRow(freshId, args))

\* _createSession keeping a single session per user.
createSessionSingle(table, args, freshId, now) ==
    LET Kept(s) == s.firebaseUid # args.firebaseUid IN
    Append(SelectSeq(table, Kept), SessionRow(freshId, args))

\* _createSession: delete the uid's sessions with expiresAt < Date.now(),
\* then insert the new one.
createSession(table, args, freshId, now) ==
    LET Kept(s) == ~(s.firebaseUid = args.firebaseUid /\ s.expiresAt < now) IN
    Append(SelectSeq(table, Kept), SessionRow(freshId, args))

\* _getUserById: the row of that id, or null.
NoUser == NewUser(0, [firebaseUid |-> "", email |-> NoStr, emailVerified |-> NoStr,
                      displayName |-> NoStr, photoURL |-> NoStr, phoneNumber |-> NoStr,
                      providerId |-> NoStr, isAnonymous |-> NoStr,
                      lastSignInTime |-> Undef])
\* _getUserById answering with the oldest row.
getUserByIdOldest(table, id) == IF table = <<>> THEN NoUser ELSE table[1]

getUserById(table, id) ==
    LET hits == {i \in 1..Len(table) : table[i].id = id} IN
    IF hits = {} THEN NoUser ELSE table[CHOOSE i \in hits : TRUE]

\* ------------------------------------------------------------------- state
VARIABLES
    clock,           \* Date.now(), in ms
    ticks,           \* clock moves so far
    starts,          \* verifyToken calls started so far
    publicKeyCache,  \* table publicKeyCache
    users,           \* table users
    sessions,        \* table sessions
    nextUserId,      \* next fresh users id
    nextSessionId,   \* next fresh sessions id
    pc,              \* per call: where its handler is suspended
    tok,             \* per call: args.idToken
    cachedKeys,      \* per call: the local cachedKeys
    response,        \* per call: the local response
    now,             \* per call: the local now
    matchingKey,     \* per call: the local matchingKey
    userId,          \* per call: the local userId
    result,          \* per call: the returned user
    reason,          \* per call: the message of the error thrown
    steps,           \* per call: the pipeline steps it has performed, in order
    hist,            \* per call: what it observed at those steps
    lastWrite,       \* the arguments of the last committed cache write
    failedFetches,   \* key fetches answered with a non-success status so far
    arg,             \* input of the function under test
    ret              \* its result

tables == <<publicKeyCache, users, sessions, nextUserId, nextSessionId>>
locals == <<tok, cachedKeys, response, now, matchingKey, userId, result, reason>>
counters == <<clock, ticks, starts>>
registers == <<arg, ret>>
locals_but_reason == <<tok, cachedKeys, response, now, matchingKey, userId, result>>

Range(f) == {f[i] : i \in DOMAIN f}
vars == <<counters, tables, pc, locals, steps, hist, lastWrite, failedFetches, registers>>

NoKey == Jwk("", "", FALSE)
NoToken == Tok(0, NoHeader, Pay(FALSE, NoClaims), NoSig)
NoArgs == [keys |-> NoBody, fetchedAt |-> 0, expiresAt |-> 0, by |-> 0]
NoHist ==
    [rowRead |-> NoRow, checkedAt |-> Undef, respAt |-> Undef, claimsAt |-> Undef,
     keySet |-> NoBody, failedBefore |-> 0]

\* The registers of a function checked on its own: a Cache-Control header
\* given as its list of directives (or null), and what is computed from it.
HeaderArg(null, dirs) == [null |-> null, dirs |-> dirs]
NoResult == [done |-> FALSE, maxAge |-> Undef, ttl |-> Undef]

\* The state after deployment: empty tables, no call in flight.
InitStore ==
    /\ clock = StartClock
    /\ ticks = 0
    /\ starts = 0
    /\ publicKeyCache = <<>>
    /\ users = <<>>
    /\ sessions = <<>>
    /\ nextUserId = 1
    /\ nextSessionId = 1
    /\ pc = [p \in Procs |-> "idle"]
    /\ tok = [p \in Procs |-> NoToken]
    /\ cachedKeys = [p \in Procs |-> NoRow]
    /\ response = [p \in Procs |-> NoResponse]
    /\ now = [p \in Procs |-> 0]
    /\ matchingKey = [p \in Procs |-> NoKey]
    /\ userId = [p \in Procs |-> 0]
    /\ result = [p \in Procs |-> NoUser]
    /\ reason = [p \in Procs |-> ""]
    /\ steps = [p \in Procs |-> <<>>]
    /\ hist = [p \in Procs |-> NoHist]
    /\ lastWrite = NoArgs
    /\ failedFetches = 0

Init ==
    /\ InitStore
    /\ arg = HeaderArg(TRUE, <<>>)
    /\ ret = NoResult

\* The call of p throws: its handler ends with that error.
Throw(p, message) ==
    /\ pc' = [pc EXCEPT ![p] = "failed"]
    /\ reason' = [reason EXCEPT ![p] = message]

Did(p, names) == steps' = [steps EXCEPT ![p] = steps[p] \o names]

\* ------------------------------------------------------------ verifyToken
\* Step 2 accepting every algorithm.
algAny(header) == TRUE

\* Step 2: parsed.header.alg !== "RS256" throws.
algSupported(header) == header.alg = "RS256"

\* Steps 1-2 of a new call in slot p (the slot's previous call, if any, has
\* ended): parseJwt, the alg check, then the cache query is issued.
Begin(p, token) ==
    /\ pc[p] \in {"idle", "done", "failed"}
    /\ starts < MaxStarts
    /\ starts' = starts + 1
    /\ tok' = [tok EXCEPT ![p] = token]
    /\ cachedKeys' = [cachedKeys EXCEPT ![p] = NoRow]
    /\ response' = [response EXCEPT ![p] = NoResponse]
    /\ now' = [now EXCEPT ![p] = 0]
    /\ matchingKey' = [matchingKey EXCEPT ![p] = NoKey]
    /\ userId' = [userId EXCEPT ![p] = 0]
    /\ result' = [result EXCEPT ![p] = NoUser]
    /\ hist' = [hist EXCEPT ![p] = [NoHist EXCEPT !.failedBefore = failedFetches]]
    /\ IF ~parseJwt(token).ok
          THEN /\ Throw(p, parseJwt(token).err)
               /\ steps' = [steps EXCEPT ![p] = <<"parse">>]
       ELSE IF ~algSupported(parseJwt(token).header)
          THEN /\ Throw(p, "Unsupported algorithm")
               /\ steps' = [steps EXCEPT ![p] = <<"parse", "alg">>]
       ELSE /\ pc' = [pc EXCEPT ![p] = "query"]
            /\ reason' = [reason EXCEPT ![p] = ""]
            /\ steps' = [steps EXCEPT ![p] = <<"parse", "alg">>]
    /\ UNCHANGED <<clock, ticks, tables, lastWrite, failedFetches, registers>>

\* Step 3, the query: ctx.runQuery(_getCachedPublicKeys).
GetCached(p) ==
    /\ pc[p] = "query"
    /\ cachedKeys' = [cachedKeys EXCEPT ![p] = getCachedPublicKeys(publicKeyCache)]
    /\ hist' = [hist EXCEPT ![p].rowRead = getCachedPublicKeys(publicKeyCache)]
    /\ pc' = [pc EXCEPT ![p] = "check"]
    /\ Did(p, <<"cacheRead">>)
    /\ UNCHANGED <<counters, tables, tok, response, now, matchingKey, userId,
                   result, reason, lastWrite, failedFetches, registers>>

\* Step 4 falling back to the first key of the set when no kid matches.
SelectKeyOrFirst(p, keySet) ==
    LET kid == parseJwt(tok[p]).header.kid
        hits == {i \in 1..Len(keySet.keys) : keySet.keys[i].kid = kid}
    IN
    /\ Did(p, <<"select">>)
    /\ IF ~keySet.json THEN Throw(p, "SyntaxError") /\ matchingKey' = matchingKey
       ELSE IF ~keySet.hasKeys THEN Throw(p, "TypeError") /\ matchingKey' = matchingKey
       ELSE /\ matchingKey' = [matchingKey EXCEPT ![p] =
                  IF hits = {} THEN keySet.keys[1]
                  ELSE keySet.keys[CHOOSE i \in hits : \A j \in hits : i <= j]]
            /\ pc' = [pc EXCEPT ![p] = "import"]
            /\ reason' = reason

\* Step 4: JSON.parse of the key set, the search by kid, then importJwk is
\* issued.  It runs in the continuation that has the key set in cachedKeys.
SelectKey(p, keySet) ==
    LET kid == parseJwt(tok[p]).header.kid
        hits == {i \in 1..Len(keySet.keys) : keySet.keys[i].kid = kid}
    IN
    /\ Did(p, <<"select">>)
    /\ IF ~keySet.json THEN Throw(p, "SyntaxError") /\ matchingKey' = matchingKey
       ELSE IF ~keySet.hasKeys THEN Throw(p, "TypeError") /\ matchingKey' = matchingKey
       ELSE IF hits = {}
          THEN Throw(p, "No matching public key found") /\ matchingKey' = matchingKey
       ELSE /\ matchingKey' = [matchingKey EXCEPT ![p] =
                                  keySet.keys[CHOOSE i \in hits : \A j \in hits : i <= j]]
            /\ pc' = [pc EXCEPT ![p] = "import"]
            /\ reason' = reason

\* Step 3's test with <= for <.
IsStaleOrDue(row, t) == ~row.present \/ row.expiresAt <= t

\* Step 3, the test  !cachedKeys || cachedKeys.expiresAt < Date.now().
IsStale(row, t) == ~row.present \/ row.expiresAt < t

CheckFresh(p) ==
    /\ pc[p] = "check"
    /\ IF IsStale(cachedKeys[p], clock)
          THEN /\ pc' = [pc EXCEPT ![p] = "fetch"]
               /\ hist' = [hist EXCEPT ![p].checkedAt = clock]
               /\ UNCHANGED <<matchingKey, reason, steps>>
          ELSE /\ SelectKey(p, cachedKeys[p].keys)
               /\ hist' = [hist EXCEPT ![p].checkedAt = clock,
                                       ![p].keySet = cachedKeys[p].keys]
    /\ UNCHANGED <<counters, tables, tok, cachedKeys, response, now, userId,
                   result, lastWrite, failedFetches, registers>>

\* !response.ok never taken.
responseOkAlways(r) == TRUE

\* response.ok: a success status.
responseOk(r) == r.status = "ok"

\* Step 3, the fetch: the response (or the rejection) of fetch arrives.
Fetch(p, r) ==
    /\ pc[p] = "fetch"
    /\ Did(p, <<"fetch">>)
    /\ IF r.status = "neterr"
          THEN /\ Throw(p, "fetch failed")
               /\ UNCHANGED <<response, failedFetches>>
       ELSE IF ~responseOk(r)
          THEN /\ Throw(p, "Failed to fetch Google public keys")
               /\ response' = [response EXCEPT ![p] = r]
               /\ failedFetches' = failedFetches + 1
       ELSE /\ response' = [response EXCEPT ![p] = r]
            /\ pc' = [pc EXCEPT ![p] = "text"]
            /\ UNCHANGED <<reason, failedFetches>>
    /\ UNCHANGED <<counters, tables, tok, cachedKeys, now, matchingKey, userId,
                   result, hist, lastWrite, registers>>

\* now taken when the cache was found stale, before the fetch.
nowAtCheck(p) == hist[p].checkedAt

\* const now = Date.now(), after the response and its text have arrived.
nowAfterText(p) == clock

\* Step 3: response.text() arrives; maxAge and now are computed and the
\* cache mutation is issued.
ReadText(p) ==
    /\ pc[p] = "text"
    /\ now' = [now EXCEPT ![p] = nowAfterText(p)]
    /\ hist' = [hist EXCEPT ![p].respAt = clock]
    /\ pc' = [pc EXCEPT ![p] = "setCache"]
    /\ UNCHANGED <<counters, tables, tok, cachedKeys, response, matchingKey,
                   userId, result, reason, steps, lastWrite, failedFetches, registers>>

CacheArgs(p) ==
    [keys |-> response[p].body,
     fetchedAt |-> now[p],
     expiresAt |-> now[p] + maxAgeOf(response[p].cacheControl) * MsPerSecond,
     by |-> p]

\* Step 3: the _setCachedPublicKeys mutation commits.
SetCached(p) ==
    /\ pc[p] = "setCache"
    /\ publicKeyCache' = setCachedPublicKeys(publicKeyCache, CacheArgs(p))
    /\ lastWrite' = CacheArgs(p)
    /\ pc' = [pc EXCEPT ![p] = "written"]
    /\ Did(p, <<"cacheWrite">>)
    /\ UNCHANGED <<counters, users, sessions, nextUserId, nextSessionId, locals,
                   hist, failedFetches, registers>>

\* The value a call assigns to cachedKeys after its write, taken from the
\* table instead of from its own keysData and now.
refetchedCachedKeys(p) == getCachedPublicKeys(publicKeyCache)

\* The value a call assigns to cachedKeys after its write: what it fetched.
ownCachedKeys(p) ==
    CacheRow(response[p].body, now[p],
             now[p] + maxAgeOf(response[p].cacheControl) * MsPerSecond)

\* Step 3-4: back in the handler, cachedKeys is set and the key is selected.
AfterSetCached(p) ==
    /\ pc[p] = "written"
    /\ cachedKeys' = [cachedKeys EXCEPT ![p] = ownCachedKeys(p)]
    /\ hist' = [hist EXCEPT ![p].keySet = ownCachedKeys(p).keys]
    /\ SelectKey(p, ownCachedKeys(p).keys)
    /\ UNCHANGED <<counters, tables, tok, response, now, userId, result,
                   lastWrite, failedFetches, registers>>

\* Step 5, importJwk: crypto.subtle.importKey resolves or rejects.
ImportKey(p) ==
    /\ pc[p] = "import"
    /\ Did(p, <<"import">>)
    /\ IF ~importJwk(matchingKey[p])
          THEN Throw(p, "DataError")
          ELSE pc' = [pc EXCEPT ![p] = "verify"] /\ reason' = reason
    /\ UNCHANGED <<counters, tables, locals_but_reason, hist, lastWrite,
                   failedFetches, registers>>

\* Steps 5-6 with the claims validated before the signature result is looked at.
CheckClaimsFirst(p, parsed, t) ==
    IF validateClaims(parsed.payload, ProjectId, t) # ""
        THEN [steps |-> <<"claims">>, err |-> validateClaims(parsed.payload, ProjectId, t)]
    ELSE IF ~verifyRS256Signature(parsed.signedContent, parsed.signature, matchingKey[p])
        THEN [steps |-> <<"claims", "verify">>, err |-> "Invalid token signature"]
    ELSE [steps |-> <<"claims", "verify">>, err |-> ""]

\* Steps 5-6 with the outcome of validateClaims dropped.
CheckSignatureOnly(p, parsed, t) ==
    IF ~verifyRS256Signature(parsed.signedContent, parsed.signature, matchingKey[p])
        THEN [steps |-> <<"verify">>, err |-> "Invalid token signature"]
    ELSE [steps |-> <<"verify", "claims">>, err |-> ""]

\* Steps 5-6: the signature result, then validateClaims.
CheckSignatureAndClaims(p, parsed, t) ==
    IF ~verifyRS256Signature(parsed.signedContent, parsed.signature, matchingKey[p])
        THEN [steps |-> <<"verify">>, err |-> "Invalid token signature"]
    ELSE [steps |-> <<"verify", "claims">>,
          err |-> validateClaims(parsed.payload, ProjectId, t)]

\* Steps 5-6: crypto.subtle.verify resolves; on success the claims are
\* validated and the _upsertUser mutation is issued.
VerifySignature(p) ==
    LET out == CheckSignatureAndClaims(p, parseJwt(tok[p]), clock \div MsPerSecond) IN
    /\ pc[p] = "verify"
    /\ Did(p, out.steps)
    /\ hist' = [hist EXCEPT ![p].claimsAt =
                   IF "claims" \in Range(out.steps) THEN clock \div MsPerSecond ELSE Undef]
    /\ IF out.err # ""
          THEN Throw(p, out.err)
          ELSE pc' = [pc EXCEPT ![p] = "upsert"] /\ reason' = reason
    /\ UNCHANGED <<counters, tables, locals_but_reason, lastWrite, failedFetches,
                   registers>>

\* Step 7-8: the _upsertUser mutation commits; back in the handler now is
\* read and the _createSession mutation is issued.
UpsertUser(p) ==
    LET out == upsertUser(users, UserArgs(parseJwt(tok[p]).payload), nextUserId) IN
    /\ pc[p] = "upsert"
    /\ Did(p, <<"upsert">>)
    /\ IF out.err
          THEN /\ Throw(p, "unique() query returned more than one result")
               /\ UNCHANGED <<users, nextUserId, userId, now>>
          ELSE /\ users' = out.users
               /\ nextUserId' = IF out.id = nextUserId THEN nextUserId + 1 ELSE nextUserId
               /\ userId' = [userId EXCEPT ![p] = out.id]
               /\ now' = [now EXCEPT ![p] = clock]
               /\ pc' = [pc EXCEPT ![p] = "session"]
               /\ reason' = reason
    /\ UNCHANGED <<counters, publicKeyCache, sessions, nextSessionId, tok, cachedKeys,
                   response, matchingKey, result, hist, lastWrite, failedFetches, registers>>

SessionArgs(p) ==
    [userId |-> userId[p],
     firebaseUid |-> parseJwt(tok[p]).payload.sub,
     expiresAt |-> parseJwt(tok[p]).payload.exp * MsPerSecond,
     createdAt |-> now[p],
     lastActiveAt |-> now[p]]

\* Step 8-9: the _createSession mutation commits; the user query is issued.
CreateSession(p) ==
    /\ pc[p] = "session"
    /\ Did(p, <<"session">>)
    /\ sessions' = createSession(sessions, SessionArgs(p), nextSessionId, clock)
    /\ nextSessionId' = nextSessionId + 1
    /\ pc' = [pc EXCEPT ![p] = "getUser"]
    /\ UNCHANGED <<counters, publicKeyCache, users, nextUserId, locals, hist,
                   lastWrite, failedFetches, registers>>

\* Step 9: the _getUserById query answers; the handler returns the user.
GetUser(p) ==
    /\ pc[p] = "getUser"
    /\ Did(p, <<"getUser">>)
    /\ result' = [result EXCEPT ![p] = getUserById(users, userId[p])]
    /\ pc' = [pc EXCEPT ![p] = "done"]
    /\ UNCHANGED <<counters, tables, tok, cachedKeys, response, now, matchingKey,
                   userId, reason, hist, lastWrite, failedFetches, registers>>

\* ------------------------------------------------------------ environment
\* Time passes.
Tick(d) ==
    /\ ticks < MaxTicks
    /\ ticks' = ticks + 1
    /\ clock' = clock + d
    /\ UNCHANGED <<starts, tables, pc, locals, steps, hist, lastWrite,
                   failedFetches, registers>>

\* _setCachedPublicKeys called on its own (it is an internal mutation).
DirectArgs(keys, ttl) ==
    [keys |-> keys, fetchedAt |-> clock, expiresAt |-> clock + ttl, by |-> 0]

SetCachedDirect(keys, ttl) ==
    /\ publicKeyCache' = setCachedPublicKeys(publicKeyCache, DirectArgs(keys, ttl))
    /\ lastWrite' = DirectArgs(keys, ttl)
    /\ UNCHANGED <<clock, ticks, starts, users, sessions, nextUserId, nextSessionId,
                   pc, locals, steps, hist, failedFetches, registers>>

\* The steps of the call in slot p, the endpoint answering with one of rs.
StepWith(p, rs) ==
    \/ GetCached(p)
    \/ CheckFresh(p)
    \/ \E r \in rs : Fetch(p, r)
    \/ ReadText(p)
    \/ SetCached(p)
    \/ AfterSetCached(p)
    \/ ImportKey(p)
    \/ VerifySignature(p)
    \/ UpsertUser(p)
    \/ CreateSession(p)
    \/ GetUser(p)

Step(p) == StepWith(p, Responses)

\* verifyToken calls one after another, with any token and any answer of
\* the endpoint, as time passes.
Next ==
    \/ \E token \in Tokens : Begin(1, token)
    \/ Step(1)
    \/ \E d \in TickSizes : Tick(d)

Spec == Init /\ [][Next]_vars

\* verifyToken calls with a good token running concurrently.
NextRace ==
    \/ \E p \in Procs : Begin(p, TokGood1)
    \/ \E p \in Procs : StepWith(p, RaceResponses)
    \/ \E d \in TickSizes : Tick(d)

SpecRace == Init /\ [][NextRace]_vars

\* verifyToken calls with a good token, and direct calls of
\* _setCachedPublicKeys committing between their steps.
NextCache ==
    \/ Begin(1, TokGood1)
    \/ Step(1)
    \/ \E d \in TickSizes : Tick(d)
    \/ \E keys \in {BodyA, BodyB}, ttl \in {0, 3600000} : SetCachedDirect(keys, ttl)

SpecCache == Init /\ [][NextCache]_vars

\* _upsertUser called on its own (it is an internal mutation): the arguments
\* of the call and what it returned are kept in the registers, n counting
\* the calls, after being the users table it left, and repeat telling that
\* it was given the arguments of the call before it on the table that call
\* left.
DirectUserArgs(uid, email) ==
    [firebaseUid |-> uid, email |-> email, emailVerified |-> NoStr,
     displayName |-> NoStr, photoURL |-> NoStr, phoneNumber |-> NoStr,
     providerId |-> NoStr, isAnonymous |-> NoStr, lastSignInTime |-> Undef]
UpsertArgs ==
    {DirectUserArgs(uid, email) : uid \in {"u1", "u3"}, email \in {NoStr, "a@x.io"}}
NoUpsert == [done |-> FALSE, err |-> FALSE, id |-> 0, n |-> 0, after |-> <<>>,
             repeat |-> FALSE]

UpsertDirect(args) ==
    LET out == upsertUser(users, args, nextUserId) IN
    /\ ret.n < MaxUpserts
    /\ arg' = args
    /\ ret' = [done |-> TRUE, err |-> out.err, id |-> out.id, n |-> ret.n + 1,
               after |-> out.users,
               repeat |-> ret.done /\ args = arg /\ users = ret.after]
    /\ IF out.err
          THEN UNCHANGED <<users, nextUserId>>
          ELSE /\ users' = out.users
               /\ nextUserId' = IF out.id = nextUserId THEN nextUserId + 1 ELSE nextUserId
    /\ UNCHANGED <<counters, publicKeyCache, sessions, nextSessionId, pc, locals,
                   steps, hist, lastWrite, failedFetches>>

InitUsers ==
    /\ InitStore
    /\ arg = DirectUserArgs("", NoStr)
    /\ ret = NoUpsert

\* The endpoint answering with its key set.
KeySetResponses == {r \in Responses : r.body = BodyA}

\* verifyToken calls of one user running concurrently, and direct calls of
\* _upsertUser for that user and another committing between their steps.
NextUsers ==
    \/ \E p \in Procs : Begin(p, TokGood1)
    \/ \E p \in Procs : StepWith(p, KeySetResponses)
    \/ \E args \in UpsertArgs : UpsertDirect(args)

SpecUsers == InitUsers /\ [][NextUsers]_vars

\* ------------------------------------------------------------- properties
Performed(p, name) == name \in Range(steps[p])
Count(p, name) == Cardinality({i \in DOMAIN steps[p] : steps[p][i] = name})
LastStep(p) == steps[p][Len(steps[p])]
Parsed(p) == parseJwt(tok[p])
Persisted(p) == Performed(p, "upsert") \/ Performed(p, "session")

ParseErrors ==
    {"Invalid JWT: expected 3 parts", "Invalid JWT: failed to decode header",
     "Invalid JWT: failed to decode payload", "Invalid JWT header: missing alg or kid",
     "InvalidCharacterError", NullDeref}
SelectErrors == {"SyntaxError", "TypeError", "No matching public key found"}
FetchErrors == {"fetch failed", "Failed to fetch Google public keys"}
ClaimsErrors ==
    {"Token has expired", "Token issued in the future", "Invalid audience",
     "Invalid issuer", "Invalid subject: sub must be a non-empty string",
     "Invalid auth_time"}

\* Every check of the call in slot p has succeeded.
AllChecksPassed(p) ==
    /\ Parsed(p).ok
    /\ Parsed(p).header.alg = "RS256"
    /\ hist[p].keySet.json /\ hist[p].keySet.hasKeys
    /\ matchingKey[p] \in Range(hist[p].keySet.keys)
    /\ matchingKey[p].kid = Parsed(p).header.kid
    /\ matchingKey[p].importable
    /\ Parsed(p).signature.signer = matchingKey[p].mat
    /\ hist[p].claimsAt # Undef
    /\ validateClaims(Parsed(p).payload, ProjectId, hist[p].claimsAt) = ""

\* C1: a verifyToken call writes users or sessions only after parsing, the
\* RS256 check, key resolution, signature verification and claims validation
\* have all succeeded in that call; a call that fails has written neither,
\* and the step in which it fails leaves both tables as they are.
C1_NoPartialState ==
    /\ [](\A p \in Procs :
            /\ Persisted(p) => AllChecksPassed(p)
            /\ pc[p] = "failed" => ~Persisted(p) /\ userId[p] = 0)
    /\ [][\A p \in Procs :
            /\ (pc'[p] = "failed" /\ pc[p] # "failed")
                  => users' = users /\ sessions' = sessions
            /\ (pc'[p] # pc[p] /\ (users' # users \/ sessions' # sessions))
                  => AllChecksPassed(p) /\ pc[p] \in {"upsert", "session"}]_vars

\* C1 witness: after a call that passed every check and wrote its user and
\* session, a call has failed at the claims check and written nothing.
C1_Witness ==
    \E p \in Procs :
        /\ pc[p] = "failed" /\ reason[p] \in ClaimsErrors /\ ~Persisted(p)
        /\ LastStep(p) = "claims"
        /\ Len(users) = 1 /\ Len(sessions) = 1

\* The place of each step in the pipeline.
StepOrder ==
    <<"parse", "alg", "cacheRead", "fetch", "cacheWrite", "select", "import",
      "verify", "claims", "upsert", "session", "getUser">>
Rank(name) == CHOOSE i \in DOMAIN StepOrder : StepOrder[i] = name
OptionalSteps == {"fetch", "cacheWrite"}

\* The step at which each error is raised.
StepOfError(message) ==
    IF message \in ParseErrors THEN "parse"
    ELSE IF message = "Unsupported algorithm" THEN "alg"
    ELSE IF message \in FetchErrors THEN "fetch"
    ELSE IF message \in SelectErrors THEN "select"
    ELSE IF message = "DataError" THEN "import"
    ELSE IF message = "Invalid token signature" THEN "verify"
    ELSE IF message \in ClaimsErrors THEN "claims"
    ELSE "upsert"

\* C2: a call performs its steps in the order parse, algorithm check, key
\* resolution (cache read, optional fetch and cache write, selection by kid),
\* import and signature check, claims check, persist; it skips none, it ends
\* at the step that fails, and a token whose signature is invalid fails with
\* the invalid-signature reason whatever its claims are.
C2_FixedOrder ==
    \A p \in Procs :
        /\ \A i, j \in DOMAIN steps[p] :
              i < j => Rank(steps[p][i]) < Rank(steps[p][j])
        /\ \A i \in DOMAIN steps[p] : \A k \in 1..(Rank(steps[p][i]) - 1) :
              StepOrder[k] \notin OptionalSteps => Performed(p, StepOrder[k])
        /\ Performed(p, "cacheWrite") => Performed(p, "fetch")
        /\ pc[p] = "failed" => LastStep(p) = StepOfError(reason[p])
        /\ (/\ Performed(p, "import")
            /\ matchingKey[p].importable
            /\ Parsed(p).signature.signer # matchingKey[p].mat
            /\ pc[p] # "verify")
              => /\ pc[p] = "failed"
                 /\ reason[p] = "Invalid token signature"
                 /\ ~Performed(p, "claims")

\* C2 witness: a token with an invalid signature and an expired exp has
\* failed at the signature check.
C2_Witness ==
    \E p \in Procs :
        /\ pc[p] = "failed"
        /\ reason[p] = "Invalid token signature"
        /\ validateClaims(Parsed(p).payload, ProjectId, clock \div MsPerSecond)
              = "Token has expired"

SignatureBad(p) == Parsed(p).signature.signer # matchingKey[p].mat

\* C3 as stated: a call that fails at the key import or at the signature
\* check fails with the invalid-signature reason, before the claims check
\* and the persist step.
C3_ImportFailureIsInvalidSignature ==
    \A p \in Procs :
        (pc[p] = "failed" /\ LastStep(p) \in {"import", "verify"})
            => /\ reason[p] = "Invalid token signature"
               /\ ~Performed(p, "claims")
               /\ ~Persisted(p)

\* C3, amended: a false signature result fails the call with the
\* invalid-signature reason, a JWK that cannot be imported fails it with the
\* import error itself, and in both cases neither the claims check nor the
\* persist step is reached.
C3_SignatureOrImportFailure ==
    \A p \in Procs :
        /\ (Performed(p, "verify") /\ SignatureBad(p))
              => /\ pc[p] = "failed"
                 /\ reason[p] = "Invalid token signature"
                 /\ ~Performed(p, "claims")
                 /\ ~Persisted(p)
        /\ (Performed(p, "import") /\ ~matchingKey[p].importable)
              => /\ pc[p] = "failed"
                 /\ reason[p] = "DataError"
                 /\ ~Performed(p, "verify")
                 /\ ~Performed(p, "claims")
                 /\ ~Persisted(p)

\* C3 witness: a call has failed on a selected JWK that does not import,
\* with the import error as its reason and no later step performed.
C3_Witness ==
    \E p \in Procs :
        /\ pc[p] = "failed" /\ reason[p] = "DataError"
        /\ LastStep(p) = "import" /\ ~importJwk(matchingKey[p])
        /\ ~Performed(p, "claims") /\ ~Persisted(p)

\* C4: a call whose token parses and whose header alg is not "RS256" fails
\* with the unsupported-algorithm reason before any read of the key cache,
\* any fetch and any write of the key cache.
C4_UnsupportedAlgorithm ==
    \A p \in Procs :
        (pc[p] # "idle" /\ Parsed(p).ok /\ Parsed(p).header.alg # "RS256")
            => /\ pc[p] = "failed"
               /\ reason[p] = "Unsupported algorithm"
               /\ steps[p] = <<"parse", "alg">>
               /\ cachedKeys[p] = NoRow
               /\ response[p] = NoResponse

\* C4 witness: an HS256 token has been refused while the key cache holds
\* a row that an earlier call wrote.
C4_Witness ==
    \E p \in Procs :
        /\ pc[p] = "failed" /\ Parsed(p).ok /\ Parsed(p).header.alg = "HS256"
        /\ reason[p] = "Unsupported algorithm"
        /\ publicKeyCache # <<>>

FoundFresh(p) ==
    /\ hist[p].checkedAt # Undef
    /\ hist[p].rowRead.present
    /\ hist[p].rowRead.expiresAt >= hist[p].checkedAt

FoundStale(p) ==
    /\ hist[p].checkedAt # Undef
    /\ ~hist[p].rowRead.present \/ hist[p].rowRead.expiresAt < hist[p].checkedAt

\* C5: a call that read a cache row whose expiresAt is not less than the
\* time of its freshness test fetches nothing, writes no cache row and
\* selects its key from the key set of the row it read.
C5_FreshCacheNoFetch ==
    \A p \in Procs :
        FoundFresh(p)
            => /\ ~Performed(p, "fetch")
               /\ ~Performed(p, "cacheWrite")
               /\ response[p] = NoResponse
               /\ Performed(p, "select")
               /\ hist[p].keySet = hist[p].rowRead.keys
               /\ matchingKey[p] # NoKey
                     => /\ matchingKey[p] \in Range(hist[p].rowRead.keys.keys)
                        /\ matchingKey[p].kid = Parsed(p).header.kid

\* C5 witness: a call found a row that expires exactly at the time of the
\* test and selected a key from it.
C5_Witness ==
    \E p \in Procs :
        /\ FoundFresh(p)
        /\ hist[p].rowRead.expiresAt = hist[p].checkedAt
        /\ matchingKey[p] # NoKey

\* C6: a call that found the cache absent or stale fetches exactly once; when
\* the answer has a success status its write leaves as the only row
\* {keys: the body, fetchedAt: now, expiresAt: now + TTL * 1000}, now being
\* the time at which the body had arrived.
C6_StaleCacheRefetched ==
    \A p \in Procs :
        /\ Count(p, "fetch") <= 1
        /\ Performed(p, "fetch") => FoundStale(p)
        /\ FoundStale(p) => pc[p] = "fetch" \/ Count(p, "fetch") = 1
        /\ Performed(p, "cacheWrite") => response[p].status = "ok"
        /\ (pc[p] = "written" /\ lastWrite.by = p)
              => publicKeyCache =
                    <<CacheRow(response[p].body, hist[p].respAt,
                               hist[p].respAt
                                 + maxAgeOf(response[p].cacheControl) * MsPerSecond)>>

\* C6 witness: a call replaced a stale row by a later one with other keys.
C6_Witness ==
    \E p \in Procs :
        /\ pc[p] = "written" /\ lastWrite.by = p
        /\ hist[p].rowRead.present
        /\ publicKeyCache[1].keys # hist[p].rowRead.keys
        /\ publicKeyCache[1].fetchedAt > hist[p].rowRead.fetchedAt

\* ------------------------------------------ parseCacheControlMaxAge alone
\* arg is a Cache-Control header given as its list of directives (or null);
\* ret is what parseCacheControlMaxAge and verifyToken's TTL make of its text.
HeaderArgs == {HeaderArg(TRUE, <<>>)} \cup {HeaderArg(FALSE, ds) : ds \in DirectiveLists}
HeaderOf(a) == IF a.null THEN NoHeaderValue ELSE HeaderValue(JoinDirectives(a.dirs))

InitMaxAge ==
    /\ InitStore
    /\ arg \in HeaderArgs
    /\ ret = NoResult

ComputeMaxAge ==
    /\ ~ret.done
    /\ ret' = [done |-> TRUE,
               maxAge |-> parseCacheControlMaxAge(HeaderOf(arg)),
               ttl |-> maxAgeOf(HeaderOf(arg))]
    /\ UNCHANGED <<counters, tables, pc, locals, steps, hist, lastWrite,
                   failedFetches, arg>>

NextMaxAge == ComputeMaxAge

SpecMaxAge == InitMaxAge /\ [][NextMaxAge]_vars

\* A directive of the form max-age=<digits>, and the number its digits write.
IsMaxAgeDirective(d) ==
    /\ Len(d) > Len(MaxAgeEq)
    /\ \A i \in 1..Len(MaxAgeEq) : d[i] = MaxAgeEq[i]
    /\ \A i \in (Len(MaxAgeEq) + 1)..Len(d) : d[i] \in Digits

RECURSIVE Pow10(_)
Pow10(n) == IF n = 0 THEN 1 ELSE 10 * Pow10(n - 1)

RECURSIVE SumTo(_, _)
SumTo(d, i) ==
    IF i > Len(d) THEN 0
    ELSE DigitVal(d[i]) * Pow10(Len(d) - i) + SumTo(d, i + 1)

DirectiveValue(d) == SumTo(d, Len(MaxAgeEq) + 1)

MaxAgePositions(a) == {i \in DOMAIN a.dirs : IsMaxAgeDirective(a.dirs[i])}
FirstMaxAge(a) == CHOOSE i \in MaxAgePositions(a) : \A j \in MaxAgePositions(a) : i <= j

\* C7: the TTL is the number written by the first max-age=<digits> directive
\* of the Cache-Control header, wherever it stands among the directives, and
\* 3600 when the header is missing or has no such directive;
\* parseCacheControlMaxAge is null in exactly those two cases.
C7_MaxAgeTtl ==
    ret.done =>
        IF arg.null \/ MaxAgePositions(arg) = {}
        THEN ret.maxAge = Undef /\ ret.ttl = DefaultMaxAge
        ELSE /\ ret.maxAge = DirectiveValue(arg.dirs[FirstMaxAge(arg)])
             /\ ret.maxAge # Undef
             /\ ret.ttl = ret.maxAge

\* C7 witness: the first max-age=<digits> directive stands after two other
\* directives, one of them a max-age= without digits, and the TTL is its 60.
C7_Witness ==
    /\ ret.done
    /\ ~arg.null
    /\ Len(arg.dirs) = 3
    /\ arg.dirs[1] = DirMaxAge(<<>>)
    /\ arg.dirs[2] = DirSMaxage
    /\ arg.dirs[3] = DirMaxAge(<<"6", "0">>)
    /\ ret.ttl = 60

LastWrittenRow == CacheRow(lastWrite.keys, lastWrite.fetchedAt, lastWrite.expiresAt)

\* C8: whatever way _setCachedPublicKeys calls and verifyToken calls
\* interleave, publicKeyCache holds at most one row and _getCachedPublicKeys
\* returns the values of the write committed last (null before any write).
C8_SingleRowLastWrite ==
    /\ Len(publicKeyCache) <= 1
    /\ lastWrite = NoArgs => getCachedPublicKeys(publicKeyCache) = NoRow
    /\ lastWrite # NoArgs
          => /\ publicKeyCache = <<LastWrittenRow>>
             /\ getCachedPublicKeys(publicKeyCache) = LastWrittenRow

\* C8 witness: a verifyToken call wrote the cache and a direct
\* _setCachedPublicKeys call then replaced its row by one with other keys.
C8_Witness ==
    \E p \in Procs :
        /\ pc[p] = "written"
        /\ lastWrite.by = 0
        /\ lastWrite.fetchedAt >= now[p]
        /\ lastWrite.keys # response[p].body
        /\ Len(publicKeyCache) = 1

\* C9: each call that found the cache absent or stale fetches and, its
\* answer having a success status, writes the cache; the row that remains is
\* that of the write committed last; each such call selects its key from the
\* key set it fetched itself.
C9_RacingRefresh ==
    /\ \A p \in Procs :
          FoundStale(p) =>
              /\ pc[p] # "fetch" => Count(p, "fetch") = 1
              /\ (Performed(p, "fetch") /\ response[p].status = "ok"
                    /\ pc[p] \notin {"text", "setCache"})
                    => Count(p, "cacheWrite") = 1
              /\ Performed(p, "select")
                    => /\ cachedKeys[p].keys = response[p].body
                       /\ hist[p].keySet = response[p].body
              /\ matchingKey[p] # NoKey
                    => matchingKey[p] \in Range(response[p].body.keys)
    /\ lastWrite # NoArgs => publicKeyCache = <<LastWrittenRow>>

\* C9 witness: both calls found the cache absent, both fetched and wrote;
\* the row is that of the second writer, and the first has selected its key
\* from its own, different, key set.
C9_Witness ==
    \E p, q \in Procs :
        /\ p # q
        /\ ~hist[p].rowRead.present /\ ~hist[q].rowRead.present
        /\ Performed(p, "cacheWrite") /\ Performed(q, "cacheWrite")
        /\ lastWrite.by = q
        /\ response[p].body # response[q].body
        /\ publicKeyCache[1].keys = response[q].body
        /\ Performed(p, "select")
        /\ matchingKey[p] \in Range(response[p].body.keys)
        /\ matchingKey[p] \notin Range(response[q].body.keys)

\* C10: a key fetch answered with a non-success status fails the call with
\* the key-fetch error after that one fetch, the failing step leaving the key
\* cache, users and sessions as they are; and a call that finds the cache
\* absent or stale goes on to fetch, also after an earlier fetch has failed.
C10_FetchFailure ==
    /\ [](\A p \in Procs :
            response[p].status = "http500"
                => /\ pc[p] = "failed"
                   /\ reason[p] = "Failed to fetch Google public keys"
                   /\ Count(p, "fetch") = 1
                   /\ LastStep(p) = "fetch"
                   /\ ~Performed(p, "cacheWrite")
                   /\ ~Persisted(p))
    /\ [][\A p \in Procs :
            /\ (pc[p] = "fetch" /\ pc'[p] = "failed")
                  => /\ publicKeyCache' = publicKeyCache
                     /\ users' = users
                     /\ sessions' = sessions
            /\ (pc[p] = "check" /\ pc'[p] # "check"
                  /\ (~cachedKeys[p].present \/ cachedKeys[p].expiresAt < clock))
                  => pc'[p] = "fetch"]_vars

\* C10 witness: a call begun after a key fetch had failed with a non-success
\* status has found the cache still absent and has fetched again.
C10_Witness ==
    \E p \in Procs :
        /\ hist[p].failedBefore >= 1
        /\ ~hist[p].rowRead.present
        /\ hist[p].checkedAt # Undef
        /\ Performed(p, "fetch")

\* The key set a call resolved holds no key of the token's kid.
KidAbsent(p) ==
    /\ Performed(p, "select")
    /\ hist[p].keySet.json /\ hist[p].keySet.hasKeys
    /\ \A i \in DOMAIN hist[p].keySet.keys :
          hist[p].keySet.keys[i].kid # Parsed(p).header.kid

\* C11: a call whose resolved key set (the fresh row it read, or the body it
\* fetched) has no key of the token's kid fails at the selection with the
\* key-not-found reason, and only such a call does; it has fetched at most
\* once and not at all when the row was fresh, the failing step leaves the
\* key cache as it is, and the call takes no step after it.
C11_KeyNotFound ==
    /\ [](\A p \in Procs :
            /\ KidAbsent(p)
                  <=> (pc[p] = "failed" /\ reason[p] = "No matching public key found")
            /\ KidAbsent(p)
                  => /\ LastStep(p) = "select"
                     /\ matchingKey[p] = NoKey
                     /\ Count(p, "fetch") <= 1
                     /\ FoundFresh(p)
                           => ~Performed(p, "fetch") /\ ~Performed(p, "cacheWrite"))
    /\ [][\A p \in Procs :
            /\ (reason'[p] = "No matching public key found" /\ pc[p] # "failed"
                   /\ pc'[p] = "failed")
                  => publicKeyCache' = publicKeyCache /\ lastWrite' = lastWrite
            /\ (pc[p] = "failed" /\ starts' = starts)
                  => pc'[p] = "failed" /\ steps'[p] = steps[p]]_vars

\* C11 witness: a re-invocation read the row an earlier call left, found it
\* fresh, and failed on the missing kid with that row still in the cache.
C11_Witness ==
    \E p \in Procs :
        /\ pc[p] = "failed" /\ reason[p] = "No matching public key found"
        /\ FoundFresh(p) /\ KidAbsent(p)
        /\ starts >= 2
        /\ publicKeyCache = <<hist[p].rowRead>>

\* ---------------------------------------------------------- validateClaims
\* validateClaims on its own: a payload and the value of Date.now() (ms).
EpochValues == {Undef} \cup 0..MaxEpoch
ClaimsArgs ==
    {[payload |-> Claims(exp, iat, aud, iss, sub, auth, "password"), ms |-> sec * MsPerSecond + off] :
        exp \in EpochValues, iat \in EpochValues, auth \in EpochValues,
        aud \in {ProjectId, "other"}, iss \in {GoodIss, IssuerPrefix \o "other"},
        sub \in {"", "u1"}, sec \in 1..(MaxEpoch - 1), off \in {0, 999}}
NoVerdict == [done |-> FALSE, err |-> ""]

InitClaims ==
    /\ InitStore
    /\ arg \in ClaimsArgs
    /\ ret = NoVerdict

\* const now = Math.floor(Date.now() / 1000), then the six rules.
RunValidateClaims ==
    /\ ~ret.done
    /\ ret' = [done |-> TRUE,
               err |-> validateClaims(arg.payload, ProjectId, arg.ms \div MsPerSecond)]
    /\ UNCHANGED <<counters, tables, pc, locals, steps, hist, lastWrite,
                   failedFetches, arg>>

NextClaims == RunValidateClaims

SpecClaims == InitClaims /\ [][NextClaims]_vars

\* The six rules in the order of the contract, each with its reason, and
\* which of them a payload breaks at second t.  A claim that is absent, and
\* an exp or iat of 0 (not truthy), count as missing.
RuleReasons ==
    <<"Token has expired", "Token issued in the future", "Invalid audience",
      "Invalid issuer", "Invalid subject: sub must be a non-empty string",
      "Invalid auth_time">>
Missing(x) == x = Undef
BrokenRules(payload, t) ==
    {i \in DOMAIN RuleReasons :
        \/ i = 1 /\ (Missing(payload.exp) \/ payload.exp = 0 \/ payload.exp <= t)
        \/ i = 2 /\ (Missing(payload.iat) \/ payload.iat = 0 \/ payload.iat > t)
        \/ i = 3 /\ payload.aud # ProjectId
        \/ i = 4 /\ payload.iss # GoodIss
        \/ i = 5 /\ payload.sub = ""
        \/ i = 6 /\ (Missing(payload.auth_time) \/ payload.auth_time > t)}
ArgSecond == arg.ms \div MsPerSecond

WellFormedAt(payload, t) ==
    /\ ~Missing(payload.iat) /\ ~Missing(payload.exp) /\ ~Missing(payload.auth_time)
    /\ payload.iat < t /\ t < payload.exp
    /\ payload.aud = ProjectId
    /\ payload.iss = GoodIss
    /\ payload.sub # ""
    /\ payload.auth_time <= t

\* C13: validateClaims accepts every payload with iat < now < exp, the
\* expected aud and iss, a non-empty sub and auth_time <= now, for all
\* integer values of iat, exp and auth_time within these bounds.
C13_AcceptsValidClaims ==
    (ret.done /\ WellFormedAt(arg.payload, ArgSecond)) => ret.err = ""

\* C13 for the payloads whose iat is not 0: those are accepted.
C13_AcceptsValidClaimsNonZeroIat ==
    (ret.done /\ WellFormedAt(arg.payload, ArgSecond) /\ arg.payload.iat # 0)
        => ret.err = ""

\* A payload within the bounds of C13 with a non-zero iat has been accepted
\* with auth_time = 0.
C13_AcceptedReached ==
    /\ ret.done /\ WellFormedAt(arg.payload, ArgSecond)
    /\ arg.payload.iat # 0 /\ arg.payload.auth_time = 0
    /\ ret.err = ""

Dot == "."
Blocks == {"H", "h", "N", "P", "n", "!"}
Texts == UNION {[1..n -> Blocks \cup {Dot}] : n \in 0..MaxTextLen}

\* token.split("."): the segments between the separators, empty ones included.
RECURSIVE SplitFrom(_, _, _)
SplitFrom(text, i, cur) ==
    IF i > Len(text) THEN <<cur>>
    ELSE IF text[i] = Dot THEN <<cur>> \o SplitFrom(text, i + 1, <<>>)
    ELSE SplitFrom(text, i + 1, Append(cur, text[i]))
Split(text) == SplitFrom(text, 1, <<>>)

\* base64urlDecode: atob throws on a character outside the alphabet.
Base64Ok(seg) == \A i \in DOMAIN seg : seg[i] # "!"
\* JSON.parse of the decoded text: one JSON value, nothing before or after it.
JsonOk(seg) == Len(seg) = 1 /\ seg[1] \in {"H", "h", "N", "P", "n"}

\* The header, payload and signature a segment decodes to.
HdrOfSeg(seg) ==
    IF ~(Base64Ok(seg) /\ JsonOk(seg)) THEN NoHeader
    ELSE IF seg[1] \in {"H", "h"} THEN Hdr(TRUE, "RS256", "k1")
    ELSE IF seg[1] = "N" THEN Hdr(TRUE, "RS256", "")
    ELSE IF seg[1] = "n" THEN HdrNull
    ELSE Hdr(TRUE, "", "")
PayOfSeg(seg) ==
    IF ~(Base64Ok(seg) /\ JsonOk(seg)) THEN Pay(FALSE, NoClaims)
    ELSE IF seg[1] = "P" THEN Pay(TRUE, GoodClaims("u1", 9000, "password"))
    ELSE Pay(TRUE, NoClaims)
SigOfSeg(seg) == Sig(Base64Ok(seg), "forged")

\* The segments parseJwt has passed to base64urlDecode when it ends with err.
DecodedUpTo(err) ==
    IF err = "Invalid JWT: expected 3 parts" THEN <<>>
    ELSE IF err = "Invalid JWT: failed to decode header" THEN <<1>>
    ELSE IF err \in {"Invalid JWT: failed to decode payload",
                     "Invalid JWT header: missing alg or kid", NullDeref} THEN <<1, 2>>
    ELSE <<1, 2, 3>>

\* JSON.stringify of a decoded header or payload, base64url-encoded.
EncodeHdr(h) ==
    IF h.isNull THEN <<"n">>
    ELSE IF h.kid = "" THEN IF h.alg = "" THEN <<"P">> ELSE <<"N">>
    ELSE <<"H">>
EncodePay(p) == IF p.claims = NoClaims THEN <<"H">> ELSE <<"P">>

\* signedContent rebuilt from the decoded header and payload.
signedContentReserialized(parts) ==
    EncodeHdr(HdrOfSeg(parts[1])) \o <<Dot>> \o EncodePay(PayOfSeg(parts[2]))

\* const signedContent = `${headerB64}.${payloadB64}`.
signedContentOf(parts) == parts[1] \o <<Dot>> \o parts[2]

\* parseJwt(text): [ok, err, header, payload, signedContent, signature] and
\* the segments it decoded.
parseJwtText(text) ==
    LET parts == Split(text)
        seg(i) == IF i <= Len(parts) THEN parts[i] ELSE <<>>
        r == parseJwt(Tok(Len(parts), HdrOfSeg(seg(1)), PayOfSeg(seg(2)), SigOfSeg(seg(3))))
    IN  [ok |-> r.ok, err |-> r.err, header |-> r.header, payload |-> r.payload,
         signature |-> r.signature,
         signedContent |-> IF r.ok THEN signedContentOf(parts) ELSE <<>>,
         decoded |-> DecodedUpTo(r.err)]

NoParse == [done |-> FALSE, out |-> parseJwtText(<<>>)]

InitParse ==
    /\ InitStore
    /\ arg \in Texts
    /\ ret = NoParse

RunParseJwt ==
    /\ ~ret.done
    /\ ret' = [done |-> TRUE, out |-> parseJwtText(arg)]
    /\ UNCHANGED <<counters, tables, pc, locals, steps, hist, lastWrite,
                   failedFetches, arg>>

NextParse == RunParseJwt

SpecParse == InitParse /\ [][NextParse]_vars

\* The number of separators of a text, and the place of its last one.
DotsOf(text) == {i \in DOMAIN text : text[i] = Dot}
LastDot(text) == CHOOSE i \in DotsOf(text) : \A j \in DotsOf(text) : j <= i

\* C15: parseJwt fails with the 3-part format error exactly when the text
\* has a number of '.'-separated segments other than 3 (1, 2, 4 or more),
\* and then it has decoded no segment.
C15_ThreeSegments ==
    ret.done =>
        /\ ret.out.err = "Invalid JWT: expected 3 parts"
              <=> Cardinality(DotsOf(arg)) + 1 # 3
        /\ Cardinality(DotsOf(arg)) + 1 # 3 => ~ret.out.ok /\ ret.out.decoded = <<>>

\* C15 witness: a text of 4 segments whose first three are a good header, a
\* good payload and a decodable signature is refused with the format error.
C15_Witness ==
    /\ ret.done
    /\ arg = <<"H", Dot, "P", Dot, Dot>>
    /\ ret.out.err = "Invalid JWT: expected 3 parts"
    /\ ret.out.decoded = <<>>

\* The segments of the text under test, when it has three.
ThreeSegments == Len(Split(arg)) = 3
SegHdr == HdrOfSeg(Split(arg)[1])
SegPay == PayOfSeg(Split(arg)[2])

\* C16: for a 3-segment token parseJwt reports the header decode error when
\* the header does not decode, else the payload decode error when the
\* payload does not decode, else the missing-fields error when alg or kid is
\* absent or falsy: the missing-fields error is raised exactly when both
\* segments decoded and a field is missing, and a header without kid next
\* to an undecodable payload gives the payload decode error.
C16_ParseErrorOrder ==
    (ret.done /\ ThreeSegments) =>
        /\ ret.out.err = "Invalid JWT: failed to decode header" <=> ~SegHdr.dec
        /\ ret.out.err = "Invalid JWT: failed to decode payload"
              <=> (SegHdr.dec /\ ~SegPay.dec)
        /\ ret.out.err = "Invalid JWT header: missing alg or kid"
              <=> (SegHdr.dec /\ SegPay.dec /\ (SegHdr.alg = "" \/ SegHdr.kid = ""))

\* C16, headers other than null: with a header that is not the JSON value
\* null the three errors are raised exactly as C16 states them; a null
\* header next to a decoded payload ends in the TypeError instead.
C16_ParseErrorOrderNonNullHeader ==
    (ret.done /\ ThreeSegments) =>
        /\ ~SegHdr.isNull => C16_ParseErrorOrder
        /\ (SegHdr.isNull /\ SegPay.dec) => ret.out.err = NullDeref

\* C16: a 3-segment token whose header is the JSON value null and whose
\* payload decodes has been parsed.
C16_NullHeaderParsed ==
    /\ ret.done
    /\ arg = <<"n", Dot, "P", Dot, "H">>
    /\ SegHdr.dec /\ SegPay.dec /\ SegHdr.alg = ""
    /\ ret.out.err = NullDeref

\* C16 witness: a header without kid followed by a payload that is base64url
\* but not JSON is refused with the payload decode error.
C16_Witness ==
    /\ ret.done
    /\ arg = <<"N", Dot, "P", "P", Dot>>
    /\ SegHdr.dec /\ SegHdr.kid = "" /\ ~SegPay.dec
    /\ ret.out.err = "Invalid JWT: failed to decode payload"

\* C17: for every token parseJwt accepts, signedContent is the text of the
\* token up to its last '.', that is its first segment, a '.', and its second
\* segment as they stand in the token, not the decoded header and payload
\* written out again.
C17_SignedContentLiteral ==
    (ret.done /\ ret.out.ok) =>
        /\ ret.out.signedContent = SubSeq(arg, 1, LastDot(arg) - 1)
        /\ ret.out.signedContent = Split(arg)[1] \o <<Dot>> \o Split(arg)[2]
        /\ arg = ret.out.signedContent \o <<Dot>> \o Split(arg)[3]

\* C17 witness: a token whose header is written with other spacing than the
\* canonical one is accepted, and its signedContent keeps that spelling.
C17_Witness ==
    /\ ret.done /\ ret.out.ok
    /\ arg = <<"h", Dot, "P", Dot, "H">>
    /\ ret.out.header = Hdr(TRUE, "RS256", "k1")
    /\ ret.out.signedContent = <<"h", Dot, "P">>

\* ------------------------------------------------------------ users table
\* The upserts a step can perform: the _upsertUser mutation of the call in
\* slot p committing, or a direct call.
UpsertByCall(p) == pc[p] = "upsert" /\ pc'[p] # "upsert"
UpsertByDirect == ret'.n = ret.n + 1
UidOf(p) == parseJwt(tok[p]).payload.sub
IdsOf(table) == {table[i].id : i \in DOMAIN table}

\* What an upsert with these arguments that returned id did to users: a uid
\* without a row got one new row, with a fresh id, the one returned; a uid
\* with a row kept that row in its place, with its id, the one returned, and
\* the fields given in the arguments; the other rows are as they were.
UpsertEffect(args, id) ==
    LET hits == UsersByUid(users, args.firebaseUid) IN
    IF hits = {}
        THEN /\ Len(users') = Len(users) + 1
             /\ SubSeq(users', 1, Len(users)) = users
             /\ users'[Len(users')].firebaseUid = args.firebaseUid
             /\ users'[Len(users')].id = id
             /\ id \notin IdsOf(users)
        ELSE /\ Len(users') = Len(users)
             /\ \A i \in DOMAIN users :
                    /\ users'[i].id = users[i].id
                    /\ users'[i].firebaseUid = users[i].firebaseUid
                    /\ i \notin hits => users'[i] = users[i]
                    /\ i \in hits =>
                          /\ id = users[i].id
                          /\ users'[i].email = IF args.email # NoStr THEN args.email
                                               ELSE users[i].email
                          /\ users'[i].providerId = IF args.providerId # NoStr
                                                    THEN args.providerId
                                                    ELSE users[i].providerId

\* C18: however _upsertUser calls and verifyToken calls interleave, users
\* holds at most one row per firebaseUid; the first upsert of a firebaseUid
\* creates exactly one row and returns its id, every later upsert of it
\* updates that row in place and returns the same id, and nothing but an
\* upsert changes users.
C18_OneRowPerUid ==
    /\ [](\A i, j \in DOMAIN users :
              users[i].firebaseUid = users[j].firebaseUid => i = j)
    /\ [][/\ \A p \in Procs : UpsertByCall(p) =>
                 /\ pc'[p] = "session"
                 /\ UpsertEffect(UserArgs(parseJwt(tok[p]).payload), userId'[p])
          /\ UpsertByDirect => (~ret'.err /\ UpsertEffect(arg', ret'.id))
          /\ users' # users => (UpsertByDirect \/ \E p \in Procs : UpsertByCall(p))]_vars

\* C18 witness: two verifyToken calls of one user that ran concurrently and
\* a direct upsert of that user all returned the id of the user's single
\* row, which carries the fields of both, next to the row of another user.
C18_Witness ==
    /\ pc[1] = "done" /\ pc[2] = "done"
    /\ steps[1] = steps[2]
    /\ userId[1] = userId[2] /\ userId[1] # 0
    /\ ret.done /\ arg.firebaseUid = "u1" /\ ret.id = userId[1]
    /\ Len(users) = 2
    /\ \E i \in DOMAIN users :
          /\ users[i].firebaseUid = "u1" /\ users[i].id = userId[1]
          /\ users[i].email = "a@x.io" /\ users[i].providerId = "password"
    /\ \E i \in DOMAIN users : users[i].firebaseUid = "u3"

\* --------------------------------------------------------- sessions table
\* The _createSession mutation of the call in slot p commits in this step.
SessionByCall(p) == pc[p] = "session" /\ pc'[p] # "session"
\* The sessions of the uid that are expired at time t.
ExpiredOf(uid, t) ==
    {i \in DOMAIN sessions : sessions[i].firebaseUid = uid /\ sessions[i].expiresAt < t}
SessionsOf(table, uid) == {i \in DOMAIN table : table[i].firebaseUid = uid}

\* C19: every successful verifyToken call inserts exactly one new session
\* row, with firebaseUid = payload.sub and expiresAt = payload.exp * 1000,
\* whether or not the token was verified before; it removes no session but
\* the expired ones of that uid, so with none of them expired the uid has one
\* session more than before; nothing else writes sessions, and the call that
\* returned left its session as the last row.
C19_SessionPerVerification ==
    /\ [](\A p \in Procs : pc[p] = "done" =>
             /\ sessions # <<>>
             /\ sessions[Len(sessions)].firebaseUid = UidOf(p)
             /\ sessions[Len(sessions)].userId = userId[p]
             /\ sessions[Len(sessions)].expiresAt
                   = parseJwt(tok[p]).payload.exp * MsPerSecond)
    /\ [][/\ \A p \in Procs : SessionByCall(p) =>
                 LET new == sessions'[Len(sessions')]
                     kept == DOMAIN sessions \ ExpiredOf(UidOf(p), clock)
                 IN  /\ pc'[p] = "getUser"
                     /\ new.firebaseUid = UidOf(p)
                     /\ new.expiresAt = parseJwt(tok[p]).payload.exp * MsPerSecond
                     /\ new.id \notin IdsOf(sessions)
                     /\ IdsOf(sessions') \ IdsOf(sessions) = {new.id}
                     /\ Len(sessions') = Cardinality(kept) + 1
                     /\ \A i \in kept : \E j \in DOMAIN sessions' : sessions'[j] = sessions[i]
                     /\ ExpiredOf(UidOf(p), clock) = {} =>
                           /\ SubSeq(sessions', 1, Len(sessions)) = sessions
                           /\ Cardinality(SessionsOf(sessions', UidOf(p)))
                                 = Cardinality(SessionsOf(sessions, UidOf(p))) + 1
          /\ sessions' # sessions => \E p \in Procs : SessionByCall(p)]_vars

\* C19 witness: the same token has been verified twice, successfully, and
\* its user has two sessions with the same expiresAt.
C19_Witness ==
    /\ pc[1] = "done" /\ tok[1] = TokGood1
    /\ starts = 2
    /\ Len(sessions) = 2
    /\ sessions[1].firebaseUid = "u1" /\ sessions[2].firebaseUid = "u1"
    /\ sessions[1].expiresAt = sessions[2].expiresAt
    /\ sessions[1].id # sessions[2].id
    /\ Len(users) = 1

\* C19: a verification has removed the expired session of an earlier one.
C19_ExpiredRemoved ==
    /\ pc[1] = "done" /\ tok[1] = TokGood1
    /\ starts = 2
    /\ nextSessionId = 3
    /\ Len(sessions) = 1

\* ------------------------------------------------------------ idempotence
\* _upsertUser applied once more, with the same arguments, to the table an
\* upsert left: the table is left as it is and the id returned is the same.
AgainSame(args, id) ==
    LET again == upsertUser(users', args, nextUserId') IN
    ~again.err /\ again.users = users' /\ again.id = id

\* C20: the user upsert is idempotent per sub: a second _upsertUser with the
\* arguments of the first leaves users as the first left it and returns the
\* same id, for direct calls and for the upsert of a verifyToken call alike;
\* so the upsert of a token verified before, with no other upsert so far,
\* leaves users as it is and returns the id the earlier verification got.
C20_UpsertIdempotent ==
    [][/\ \A p \in Procs : UpsertByCall(p) =>
              AgainSame(UserArgs(parseJwt(tok[p]).payload), userId'[p])
       /\ UpsertByDirect =>
              /\ AgainSame(arg', ret'.id)
              /\ ret'.repeat => (users' = users /\ ret'.id = ret.id /\ ~ret'.err)
       /\ \A p \in Procs : \A q \in Procs \ {p} :
              (/\ UpsertByCall(p)
               /\ ret.n = 0
               /\ tok[q] = tok[p]
               /\ pc[q] \in {"session", "getUser", "done"})
                 => (users' = users /\ userId'[p] = userId[q])]_vars

\* C20 witness: _upsertUser has been called twice in a row with the same
\* arguments, a new uid with an email, and there is the one row the first
\* call made, under the id both returned.
C20_Witness ==
    /\ ret.repeat /\ ret.n = 2 /\ ~ret.err
    /\ arg = DirectUserArgs("u3", "a@x.io")
    /\ users = ret.after
    /\ Len(users) = 1 /\ nextUserId = 2
    /\ users[1] = NewUser(ret.id, arg)

\* ------------------------------------------------------- store operations
\* The public and internal functions on users and sessions, each a query or
\* a mutation, which the store runs as one transaction.  A table lists its
\* rows in the order of their creation.
NoSession ==
    SessionRow(0, [userId |-> 0, firebaseUid |-> "", expiresAt |-> 0, createdAt |-> 0,
                   lastActiveAt |-> 0])

\* getUserByFirebaseUid: the row of the uid, or null.
getUserByFirebaseUid(table, uid) ==
    LET hits == UsersByUid(table, uid) IN
    IF hits = {} THEN NoUser ELSE table[CHOOSE i \in hits : TRUE]

\* deleteUser: nothing without a row of the uid; else the sessions whose
\* userId is the id of that row are deleted, then the row.
deleteUser(usersT, sessionsT, uid) ==
    LET user == getUserByFirebaseUid(usersT, uid)
        OtherUser(u) == u.id # user.id
        NotOfUser(x) == x.userId # user.id
    IN  IF user = NoUser THEN [users |-> usersT, sessions |-> sessionsT]
        ELSE [users |-> SelectSeq(usersT, OtherUser),
              sessions |-> SelectSeq(sessionsT, NotOfUser)]

\* getSession: the session of the uid created last, or null when there is
\* none or when that one has expiresAt < Date.now().
getSession(table, uid, t) ==
    LET hits == SessionsOf(table, uid)
        last == CHOOSE i \in hits : \A j \in hits : j <= i
    IN  IF hits = {} THEN NoSession
        ELSE IF table[last].expiresAt < t THEN NoSession
        ELSE table[last]

\* The sweep removing the sessions that end within a second as well.
cleanupExpiredSessionsEager(table, t) ==
    LET Live(x) == ~(x.expiresAt < t + MsPerSecond) IN
    [sessions |-> SelectSeq(table, Live),
     count |-> Len(table) - Len(SelectSeq(table, Live))]

\* The sweep returning the number of sessions it found.
cleanupExpiredSessionsCountAll(table, t) ==
    LET Live(x) == ~(x.expiresAt < t) IN
    [sessions |-> SelectSeq(table, Live), count |-> Len(table)]

\* invalidateAllSessions deleting only the session of the uid created last.
invalidateAllSessionsLatest(table, uid) ==
    LET hits == SessionsOf(table, uid)
        Older(x) == \E i \in hits : table[i].id > x.id
        Kept(x) == x.firebaseUid # uid \/ Older(x)
    IN  SelectSeq(table, Kept)

\* invalidateAllSessions: every session of the uid is deleted.
invalidateAllSessions(table, uid) ==
    LET Other(x) == x.firebaseUid # uid IN SelectSeq(table, Other)

\* _cleanupExpiredSessions: the sessions with expiresAt < Date.now() are
\* deleted; their number is returned.
cleanupExpiredSessions(table, t) ==
    LET Live(x) == ~(x.expiresAt < t) IN
    [sessions |-> SelectSeq(table, Live),
     count |-> Len(table) - Len(SelectSeq(table, Live))]

\* The registers of these calls: the last call (its name, its argument and
\* what it returned), n counting the calls; for a sweep also the time of
\* the call, the sessions it left, and repeat telling that it ran at the
\* time and on the sessions the sweep called right before it left.
OpArg(uid, session) == [uid |-> uid, session |-> session]
NoOpArg == OpArg("", NoSession)
OpRet(op, n, user, session, count) ==
    [op |-> op, n |-> n, user |-> user, session |-> session, count |-> count,
     at |-> 0, left |-> <<>>, repeat |-> FALSE]
NoOp == OpRet("none", 0, NoUser, NoSession, 0)
Uids == {"u1", "u2"}

\* What a call that writes no table and no slot leaves alone.
UNCHANGED_calls == UNCHANGED <<counters, publicKeyCache, nextUserId, pc, locals, steps,
                               hist, lastWrite, failedFetches>>

DeleteUser(uid) ==
    /\ ret.n < MaxOps
    /\ users' = deleteUser(users, sessions, uid).users
    /\ sessions' = deleteUser(users, sessions, uid).sessions
    /\ arg' = OpArg(uid, NoSession)
    /\ ret' = OpRet("deleteUser", ret.n + 1, NoUser, NoSession, 0)
    /\ UNCHANGED nextSessionId
    /\ UNCHANGED_calls

GetUserByFirebaseUid(uid) ==
    /\ ret.n < MaxOps
    /\ arg' = OpArg(uid, NoSession)
    /\ ret' = OpRet("getUserByFirebaseUid", ret.n + 1, getUserByFirebaseUid(users, uid),
                    NoSession, 0)
    /\ UNCHANGED <<users, sessions, nextSessionId>>
    /\ UNCHANGED_calls

GetSession(uid) ==
    /\ ret.n < MaxOps
    /\ arg' = OpArg(uid, NoSession)
    /\ ret' = OpRet("getSession", ret.n + 1, NoUser, getSession(sessions, uid, clock), 0)
    /\ UNCHANGED <<users, sessions, nextSessionId>>
    /\ UNCHANGED_calls

InvalidateAllSessions(uid) ==
    /\ ret.n < MaxOps
    /\ sessions' = invalidateAllSessions(sessions, uid)
    /\ arg' = OpArg(uid, NoSession)
    /\ ret' = OpRet("invalidateAllSessions", ret.n + 1, NoUser, NoSession, 0)
    /\ UNCHANGED <<users, nextSessionId>>
    /\ UNCHANGED_calls

CleanupExpiredSessions ==
    /\ ret.n < MaxOps
    /\ sessions' = cleanupExpiredSessions(sessions, clock).sessions
    /\ arg' = NoOpArg
    /\ ret' = [OpRet("_cleanupExpiredSessions", ret.n + 1, NoUser, NoSession,
                      cleanupExpiredSessions(sessions, clock).count)
                  EXCEPT !.at = clock,
                         !.left = cleanupExpiredSessions(sessions, clock).sessions,
                         !.repeat = /\ ret.op = "_cleanupExpiredSessions"
                                    /\ ret.at = clock
                                    /\ ret.left = sessions]
    /\ UNCHANGED <<users, nextSessionId>>
    /\ UNCHANGED_calls

\* _createSession called on its own (it is an internal mutation), for a
\* session that ends at one of two times.
DirectSessionArgs(uid, expiresAt) ==
    [userId |-> 0, firebaseUid |-> uid, expiresAt |-> expiresAt, createdAt |-> 0,
     lastActiveAt |-> 0]
SessionEnds == {6000, 9000000}

CreateSessionDirect(uid, expiresAt) ==
    /\ ret.n < MaxOps
    /\ sessions' = createSession(sessions, DirectSessionArgs(uid, expiresAt),
                                 nextSessionId, clock)
    /\ nextSessionId' = nextSessionId + 1
    /\ arg' = OpArg(uid, NoSession)
    /\ ret' = OpRet("_createSession", ret.n + 1, NoUser, NoSession, 0)
    /\ UNCHANGED users
    /\ UNCHANGED_calls

InitCalls ==
    /\ InitStore
    /\ arg = NoOpArg
    /\ ret = NoOp

\* verifyToken calls of one user, one after another, while time passes,
\* sessions of that user and another, ending late or soon, are created and
\* the maintenance sweep runs between their steps.
NextSessions ==
    \/ Begin(1, TokGood1)
    \/ StepWith(1, KeySetResponses)
    \/ \E d \in TickSizes : Tick(d)
    \/ \E uid \in Uids, e \in SessionEnds : CreateSessionDirect(uid, e)
    \/ CleanupExpiredSessions

SpecSessions == InitCalls /\ [][NextSessions]_vars

\* verifyToken calls of two users, one after another, with a token that
\* ends late or soon, while time passes and sessions are invalidated and
\* looked up between their steps.
NextSignOut ==
    \/ \E token \in {TokGood1, TokShort, TokGood2} : Begin(1, token)
    \/ StepWith(1, KeySetResponses)
    \/ \E d \in TickSizes : Tick(d)
    \/ \E uid \in Uids : InvalidateAllSessions(uid)
    \/ \E uid \in Uids : GetSession(uid)

SpecSignOut == InitCalls /\ [][NextSignOut]_vars

\* verifyToken calls of two users, one after another, while users are
\* deleted and looked up between their steps.
NextDelete ==
    \/ \E token \in {TokGood1, TokGood2} : Begin(1, token)
    \/ StepWith(1, KeySetResponses)
    \/ \E uid \in Uids : DeleteUser(uid)
    \/ \E uid \in Uids : GetUserByFirebaseUid(uid)
    \/ \E uid \in Uids : GetSession(uid)

SpecDelete == InitCalls /\ [][NextDelete]_vars

\* ---------------------------------------------------------- _createSession
\* The call of this step is the direct call of that function.
Called(op) == ret'.n = ret.n + 1 /\ ret'.op = op
RowsOf(table) == {table[i] : i \in DOMAIN table}

\* What a _createSession for the uid did to sessions: the rows it removed
\* are the expired ones of the uid, the row it added is the last one.
CreateEffect(uid) ==
    /\ sessions' # <<>>
    /\ sessions'[Len(sessions')].firebaseUid = uid
    /\ sessions'[Len(sessions')] \notin RowsOf(sessions)
    /\ RowsOf(sessions') \ RowsOf(sessions) = {sessions'[Len(sessions')]}
    /\ \A i \in DOMAIN sessions :
          sessions[i] \notin RowsOf(sessions')
             <=> (sessions[i].firebaseUid = uid /\ sessions[i].expiresAt < clock)

\* C21: _createSession, called by verifyToken or on its own, deletes exactly
\* the sessions of the new session's firebaseUid with expiresAt < now and
\* inserts the new session: the unexpired sessions of that firebaseUid and
\* all sessions of the other firebaseUids, expired or not, stay as they are.
C21_CreateSessionFrame ==
    [][/\ \A p \in Procs : SessionByCall(p) => CreateEffect(UidOf(p))
       /\ Called("_createSession") => CreateEffect(arg'.uid)]_vars

\* C21 witness: a verification of u1 has just removed the expired session
\* of u1 and kept the unexpired one of u1 and the expired one of u2.
C21_Witness ==
    /\ pc[1] = "getUser"
    /\ clock = StartClock + 1000
    /\ Len(sessions) = 3
    /\ sessions[1].firebaseUid = "u1" /\ sessions[1].expiresAt = 9000000
    /\ sessions[2].firebaseUid = "u2" /\ sessions[2].expiresAt = 6000
    /\ sessions[3].firebaseUid = "u1" /\ sessions[3].id = 4
    /\ nextSessionId = 5

\* ------------------------------------------------- _cleanupExpiredSessions
\* C22: the sweep removes exactly the sessions with expiresAt < now and
\* returns their number, so however it interleaves with verifyToken and
\* _createSession it removes no session whose expiresAt has not passed; it
\* changes nothing else; and run again at the same time on the sessions the
\* sweep before it left, it removes nothing and returns 0.
C22_SweepExpiredOnly ==
    [][Called("_cleanupExpiredSessions") =>
          /\ RowsOf(sessions') \subseteq RowsOf(sessions)
          /\ \A i \in DOMAIN sessions :
                sessions[i] \notin RowsOf(sessions') <=> sessions[i].expiresAt < clock
          /\ ret'.count = Cardinality(RowsOf(sessions) \ RowsOf(sessions'))
          /\ ret'.count = Len(sessions) - Len(sessions')
          /\ users' = users
          /\ ret'.repeat => (sessions' = sessions /\ ret'.count = 0)]_vars

\* C22 witness: a sweep that ran while a verifyToken call was in flight,
\* removed the expired session of another user and left the unexpired
\* session of that call.
C22_Witness ==
    /\ ret.op = "_cleanupExpiredSessions" /\ ret.count = 1 /\ ~ret.repeat
    /\ nextSessionId = 3
    /\ clock = StartClock + 1000
    /\ sessions = ret.left /\ Len(sessions) = 1
    /\ sessions[1].firebaseUid = "u1" /\ sessions[1].expiresAt = 9000000
    /\ pc[1] = "getUser"

\* C22: a sweep has run a second time, at the time and on the sessions the
\* first left, one of them unexpired, and has returned 0.
C22_SecondSweep ==
    /\ ret.op = "_cleanupExpiredSessions" /\ ret.repeat /\ ret.count = 0
    /\ clock = StartClock + 1000
    /\ sessions = ret.left /\ Len(sessions) = 1
    /\ sessions[1].expiresAt = 9000000
    /\ ret.n = 2

\* --------------------------------------------------------------- deleteUser
\* C23: when deleteUser(uid) has completed, from whatever state it was
\* called in, users has no row of the uid and sessions has no row whose
\* firebaseUid is the uid, so getUserByFirebaseUid(uid) and getSession(uid)
\* return null; the users and sessions of the other uids are unchanged.
C23_DeleteUserAndSessions ==
    [][Called("deleteUser") =>
          /\ UsersByUid(users', arg'.uid) = {}
          /\ SessionsOf(sessions', arg'.uid) = {}
          /\ getUserByFirebaseUid(users', arg'.uid) = NoUser
          /\ getSession(sessions', arg'.uid, clock') = NoSession
          /\ \A u \in RowsOf(users) : u.firebaseUid # arg'.uid => u \in RowsOf(users')
          /\ \A x \in RowsOf(sessions) :
                x.firebaseUid # arg'.uid => x \in RowsOf(sessions')
          /\ RowsOf(users') \subseteq RowsOf(users)
          /\ RowsOf(sessions') \subseteq RowsOf(sessions)]_vars

\* C23, what deleteUser does: the row of the uid is removed, and with it the
\* sessions whose userId is the id of that row; the sessions of the uid
\* under another userId stay, as do all of them when the uid has no row.
C23_DeleteUserByUserId ==
    [][Called("deleteUser") =>
          /\ UsersByUid(users', arg'.uid) = {}
          /\ getUserByFirebaseUid(users', arg'.uid) = NoUser
          /\ \A x \in RowsOf(sessions) :
                x \notin RowsOf(sessions')
                   <=> \E u \in RowsOf(users) :
                          u.firebaseUid = arg'.uid /\ x.userId = u.id
          /\ \A u \in RowsOf(users) : u.firebaseUid # arg'.uid => u \in RowsOf(users')
          /\ RowsOf(users') \subseteq RowsOf(users)
          /\ RowsOf(sessions') \subseteq RowsOf(sessions)]_vars

\* C23: deleteUser has completed for a uid that has no user row and it has
\* left the session of that uid, which getSession returns.
C23_SessionSurvives ==
    /\ ret.op = "deleteUser" /\ arg.uid = "u1" /\ ret.n = 2
    /\ UsersByUid(users, "u1") = {}
    /\ SessionsOf(sessions, "u1") # {}
    /\ getSession(sessions, "u1", clock) # NoSession

\* C23: deleteUser has removed a user with its session and left the user
\* and the session of another uid.
C23_Deleted ==
    /\ ret.op = "deleteUser" /\ arg.uid = "u1" /\ ret.n = 1
    /\ nextUserId = 3 /\ nextSessionId = 3
    /\ Len(users) = 1 /\ users[1].firebaseUid = "u2"
    /\ Len(sessions) = 1 /\ sessions[1].firebaseUid = "u2"

\* ------------------------------------------------ the user verifyToken returns
\* C24 as stated: a verifyToken call that returned, returned a user record,
\* not null, with the firebaseUid of the token's sub and the id its upsert
\* returned, whatever was called on the store between its steps.
C24_ReturnsUser ==
    \A p \in Procs : pc[p] = "done" =>
        /\ result[p] # NoUser
        /\ result[p].firebaseUid = UidOf(p)
        /\ result[p].id = userId[p]

\* C24 amended: a verifyToken call that returned, returned null or the user
\* record with the firebaseUid of the token's sub and the id its upsert
\* returned; it returned null exactly when no row of that id was left at
\* its last step, the user having been deleted after the upsert.
C24_ReturnsUserOrNull ==
    /\ [](\A p \in Procs : pc[p] = "done" =>
             \/ result[p] = NoUser
             \/ /\ result[p].firebaseUid = UidOf(p)
                /\ result[p].id = userId[p]
                /\ userId[p] # 0)
    /\ [][\A p \in Procs : (pc[p] = "getUser" /\ pc'[p] = "done") =>
             /\ result'[p] = NoUser <=> userId[p] \notin IdsOf(users)
             /\ result'[p] # NoUser => result'[p] \in RowsOf(users)]_vars

\* C24 witness: a call has returned null: its user was deleted after its
\* upsert, and the session it then made is left without a user.
C24_Witness ==
    /\ pc[1] = "done" /\ result[1] = NoUser /\ userId[1] # 0
    /\ ret.op = "deleteUser" /\ arg.uid = UidOf(1)
    /\ userId[1] \notin IdsOf(users)
    /\ \E i \in DOMAIN sessions : sessions[i].userId = userId[1]

\* C24: a call has returned the record of its user, the second row of
\* users, after the user of the call before it was deleted and made anew.
C24_UserReturned ==
    /\ pc[1] = "done" /\ result[1] # NoUser
    /\ result[1].id = userId[1] /\ result[1].firebaseUid = "u1"
    /\ Len(users) = 2 /\ users[2] = result[1]
    /\ ret.op = "deleteUser"

\* ---------------------------------------------------- POST <prefix>/verify
\* A request body: text that is not JSON, the JSON value null, a JSON value
\* without an idToken field ({} or a number), an object whose idToken is
\* the empty string, an object whose idToken is a number, or an object
\* whose idToken is a token.
Request(kind, idToken) == [kind |-> kind, idToken |-> idToken]
Requests ==
    {Request(k, NoToken) : k \in {"notJson", "null", "noField", "empty", "nonString"}}
        \cup {Request("token", t) : t \in Tokens}

\* The response of the route: its status and the error or the user of its
\* body; pending while the verifyToken action it runs has not ended, at
\* being the number of calls started before the request.
HttpResponse(status, error, user) ==
    [status |-> status, error |-> error, user |-> user, pending |-> FALSE, at |-> 0]
NoHttpResponse == HttpResponse(0, "", NoUser)

\* The handler up to ctx.runAction: request.json() and body.idToken throw
\* into the catch (401), a falsy idToken is answered with 400, an idToken
\* that is no string is refused by the action's argument validator (401).
RouteRequest(body) ==
    /\ ~ret.pending
    /\ arg' = body
    /\ ret' = IF body.kind = "notJson" THEN HttpResponse(401, "SyntaxError", NoUser)
              ELSE IF body.kind = "null" THEN HttpResponse(401, NullDeref, NoUser)
              ELSE IF body.kind \in {"noField", "empty"}
                  THEN HttpResponse(400, "idToken is required", NoUser)
              ELSE IF body.kind = "nonString"
                  THEN HttpResponse(401, "ArgumentValidationError", NoUser)
              ELSE [NoHttpResponse EXCEPT !.pending = TRUE, !.at = starts]
    /\ UNCHANGED <<counters, tables, pc, locals, steps, hist, lastWrite, failedFetches>>

\* ctx.runAction(component.lib.verifyToken, ...) starts the call.
RouteRunAction ==
    /\ ret.pending /\ ret.at = starts
    /\ Begin(1, arg.idToken)

\* The action has ended: 200 with what it returned, or 401 with the message
\* of what it threw.
RouteRespond ==
    /\ ret.pending /\ ret.at # starts
    /\ pc[1] \in {"done", "failed"}
    /\ ret' = IF pc[1] = "done" THEN HttpResponse(200, "", result[1])
              ELSE HttpResponse(401, reason[1], NoUser)
    /\ UNCHANGED <<arg, counters, tables, pc, locals, steps, hist, lastWrite,
                   failedFetches>>

InitRoute ==
    /\ InitStore
    /\ arg = Request("noField", NoToken)
    /\ ret = NoHttpResponse

\* Requests to the route one after another, with any body and any answer of
\* the key endpoint, as time passes.
NextRoute ==
    \/ \E body \in Requests : RouteRequest(body)
    \/ RouteRunAction
    \/ Step(1)
    \/ RouteRespond
    \/ \E d \in TickSizes : Tick(d)

SpecRoute == InitRoute /\ [][NextRoute]_vars

\* The route answers in this step.
Responded == ret' # ret /\ ~ret'.pending
\* The body carries an idToken (one that is not empty).
HasIdToken(body) == body.kind \in {"nonString", "token"}

\* C25: the route answers 400 exactly when the body has no idToken, 401 with
\* an error for every verification failure and 200 with the user exactly
\* when verification succeeded: no failed verification gets 200 and no
\* request with an idToken gets 400.
C25_RouteStatus ==
    [][Responded =>
          /\ ret'.status \in {200, 400, 401}
          /\ ret'.status = 400 <=> ~HasIdToken(arg')
          /\ ret'.status = 200 <=> (ret.pending /\ pc[1] = "done")
          /\ ret'.status = 200 => ret'.user = result[1]
          /\ (ret.pending /\ pc[1] = "failed") =>
                (ret'.status = 401 /\ ret'.error = reason[1] /\ ret'.error # "")]_vars

\* C25, the statuses of the route: 400 exactly for a JSON body other than
\* null whose idToken is absent or empty; 401 for a body that is not JSON or
\* is null, for an idToken that is no string and for every verification
\* failure; 200 exactly when verification succeeded.
C25_RouteStatusOfBody ==
    [][Responded =>
          /\ ret'.status \in {200, 400, 401}
          /\ ret'.status = 400 <=> arg'.kind \in {"noField", "empty"}
          /\ ret'.status = 401 <=>
                \/ arg'.kind \in {"notJson", "null", "nonString"}
                \/ ret.pending /\ pc[1] = "failed"
          /\ ret'.status = 200 <=> (ret.pending /\ pc[1] = "done")
          /\ ret'.status = 200 => ret'.user = result[1]
          /\ ret'.status = 401 => ret'.error # ""
          /\ (ret.pending /\ pc[1] = "failed") => ret'.error = reason[1]]_vars

\* C25: a request whose body is the JSON value null, which has no idToken,
\* has been answered 401.
C25_NullBodyUnauthorized ==
    /\ arg.kind = "null" /\ ~ret.pending
    /\ ret.status = 401 /\ ret.error = NullDeref

\* C25: the second of two requests with a token has been answered 200 with
\* the user of the token.
C25_Answered ==
    /\ arg = Request("token", TokGood1) /\ ~ret.pending
    /\ ret.status = 200 /\ ret.user.firebaseUid = "u1"
    /\ starts = 2 /\ Len(sessions) = 1

\* -------------------------------------------------------- failure reasons
\* Tokens of a provider key that break one claims rule each.
TokWithClaims(claims) == Tok(3, Hdr(TRUE, "RS256", "k1"), Pay(TRUE, claims), Sig(TRUE, "m1"))
ClaimsTokens ==
    {TokWithClaims(Claims(3, 4, ProjectId, GoodIss, "u1", 4, "password")),
     TokWithClaims(Claims(9000, 9, ProjectId, GoodIss, "u1", 4, "password")),
     TokWithClaims(Claims(9000, 4, "other", GoodIss, "u1", 4, "password")),
     TokWithClaims(Claims(9000, 4, ProjectId, IssuerPrefix \o "other", "u1", 4, "password")),
     TokWithClaims(Claims(9000, 4, ProjectId, GoodIss, "", 4, "password")),
     TokWithClaims(Claims(9000, 4, ProjectId, GoodIss, "u1", Undef, "password"))}

\* verifyToken calls one after another, with any of these tokens too.
NextErrors ==
    \/ \E token \in Tokens \cup ClaimsTokens : Begin(1, token)
    \/ Step(1)
    \/ \E d \in TickSizes : Tick(d)

SpecErrors == Init /\ [][NextErrors]_vars

\* The kind of the failure of the call in slot p, from the check that
\* failed: the step it ended at and, for the claims, the first broken rule.
RuleKinds ==
    <<"expired", "issuedInFuture", "audience", "issuer", "subject", "authTime">>
FirstBroken(p) ==
    CHOOSE i \in BrokenRules(Parsed(p).payload, hist[p].claimsAt) :
        \A j \in BrokenRules(Parsed(p).payload, hist[p].claimsAt) : i <= j
KindOfFailure(p) ==
    IF LastStep(p) = "parse" THEN "format"
    ELSE IF LastStep(p) = "alg" THEN "algorithm"
    ELSE IF LastStep(p) = "fetch" THEN "keyFetch"
    ELSE IF LastStep(p) = "select"
        THEN IF KidAbsent(p) THEN "keyNotFound" ELSE "keySet"
    ELSE IF LastStep(p) = "import" THEN "keyImport"
    ELSE IF LastStep(p) = "verify" THEN "signature"
    ELSE IF LastStep(p) = "claims" THEN RuleKinds[FirstBroken(p)]
    ELSE "store"

\* The kind a caller reads from the reason alone.
KindOfReason(message) ==
    IF message \in ParseErrors THEN "format"
    ELSE IF message = "Unsupported algorithm" THEN "algorithm"
    ELSE IF message \in FetchErrors THEN "keyFetch"
    ELSE IF message = "No matching public key found" THEN "keyNotFound"
    ELSE IF message \in SelectErrors THEN "keySet"
    ELSE IF message = "DataError" THEN "keyImport"
    ELSE IF message = "Invalid token signature" THEN "signature"
    ELSE IF \E i \in DOMAIN RuleReasons : RuleReasons[i] = message
        THEN RuleKinds[CHOOSE i \in DOMAIN RuleReasons : RuleReasons[i] = message]
    ELSE "unknown"

\* C26: every failure of verifyToken reaches the caller with a reason of its
\* own kind: the reason of a failed call tells whether the format (an
\* undecodable signature segment included), the algorithm, the key fetch,
\* the key lookup, the key import, the signature or which of the six claims
\* rules failed, so reasons of different kinds differ; no failed check lets
\* the call return, and no failure has an empty or unknown reason.
C26_SpecificReasons ==
    \A p \in Procs :
        /\ pc[p] = "failed" =>
              /\ reason[p] # ""
              /\ KindOfReason(reason[p]) # "unknown"
              /\ KindOfReason(reason[p]) = KindOfFailure(p)
              /\ result[p] = NoUser
        /\ pc[p] = "done" => (reason[p] = "" /\ AllChecksPassed(p))

\* C26 witness: the second call has failed on an undecodable signature
\* segment, with the reason atob gives, of the format kind.
C26_Witness ==
    /\ pc[1] = "failed" /\ tok[1] = TokBadSigSeg
    /\ reason[1] = "InvalidCharacterError"
    /\ KindOfFailure(1) = "format"
    /\ starts = 2

\* ---------------------------------------------------- invalidateAllSessions
\* C27: when invalidateAllSessions(uid) has completed, no session with
\* firebaseUid = uid is left, however many there were, and getSession(uid)
\* returns null; the sessions of the other firebaseUids and all user rows
\* are unchanged.
C27_InvalidateAllSessions ==
    [][Called("invalidateAllSessions") =>
          /\ SessionsOf(sessions', arg'.uid) = {}
          /\ getSession(sessions', arg'.uid, clock') = NoSession
          /\ RowsOf(sessions') = {x \in RowsOf(sessions) : x.firebaseUid # arg'.uid}
          /\ Len(sessions') = Len(sessions) - Cardinality(SessionsOf(sessions, arg'.uid))
          /\ users' = users]_vars

\* C27 witness: invalidateAllSessions has removed the session of one user
\* and left that of the other, and both user rows.
C27_Witness ==
    /\ ret.op = "invalidateAllSessions" /\ arg.uid = "u1" /\ ret.n = 1
    /\ nextSessionId = 3
    /\ Len(sessions) = 1 /\ sessions[1].firebaseUid = "u2" /\ sessions[1].id = 2
    /\ Len(users) = 2

\* C27: invalidateAllSessions has removed the two sessions of a user.
C27_BothRemoved ==
    /\ ret.op = "invalidateAllSessions" /\ arg.uid = "u1" /\ ret.n = 1
    /\ nextSessionId = 3 /\ Len(users) = 1
    /\ sessions = <<>>

\* --------------------------------------------------------------- getSession
\* The sessions of the uid that have not expired at time t.
LiveOf(table, uid, t) ==
    {i \in SessionsOf(table, uid) : ~(table[i].expiresAt < t)}

\* C28: getSession(uid) never returns a session with expiresAt < now nor a
\* session of another firebaseUid; and while a session created for the uid
\* has neither expired nor been invalidated, it returns a session, with
\* firebaseUid = uid.
C28_GetSession ==
    [][Called("getSession") =>
          /\ ret'.session # NoSession =>
                /\ ~(ret'.session.expiresAt < clock)
                /\ ret'.session.firebaseUid = arg'.uid
                /\ ret'.session \in RowsOf(sessions)
          /\ LiveOf(sessions, arg'.uid, clock) # {} =>
                (ret'.session # NoSession /\ ret'.session.firebaseUid = arg'.uid)]_vars

\* C28, what getSession returns: the session of the uid created last when
\* that one has not expired, else null, also when an older session of the
\* uid has not expired.
C28_GetSessionLatest ==
    [][Called("getSession") =>
          /\ ret'.session # NoSession =>
                /\ ~(ret'.session.expiresAt < clock)
                /\ ret'.session.firebaseUid = arg'.uid
                /\ ret'.session \in RowsOf(sessions)
                /\ \A i \in SessionsOf(sessions, arg'.uid) :
                      sessions[i].id <= ret'.session.id
          /\ ret'.session = NoSession <=>
                \A i \in SessionsOf(sessions, arg'.uid) :
                    \/ sessions[i].expiresAt < clock
                    \/ \E j \in SessionsOf(sessions, arg'.uid) : j > i]_vars

\* C28: getSession has returned null for a uid whose first session has not
\* expired, the one created after it having expired.
C28_LiveSessionHidden ==
    /\ ret.op = "getSession" /\ arg.uid = "u1" /\ ret.session = NoSession
    /\ Len(sessions) = 2
    /\ sessions[1].firebaseUid = "u1" /\ ~(sessions[1].expiresAt < clock)
    /\ sessions[2].firebaseUid = "u1" /\ sessions[2].expiresAt < clock

\* C28: getSession has returned the unexpired session of the uid.
C28_SessionReturned ==
    /\ ret.op = "getSession" /\ arg.uid = "u1"
    /\ ret.session # NoSession /\ ret.session.firebaseUid = "u1"
    /\ ret.session \in RowsOf(sessions)
    /\ \E i \in DOMAIN sessions : sessions[i].firebaseUid = "u2"

\* ----------------------------------------------------------- user profile
\* Claims with the optional profile fields of the payload given.
WithProfile(claims, email, verified, name, picture, phone) ==
    [claims EXCEPT !.email = email, !.email_verified = verified, !.name = name,
                   !.picture = picture, !.phone_number = phone]

\* Tokens of user u1 signed by a provider key: an anonymous sign-in without
\* profile fields, a sign-in through a linked provider with every profile
\* field, and a token whose auth_time is 0 (the epoch) with another name and
\* an unverified email.
TokAnon1 ==
    TokWithClaims(WithProfile(GoodClaims("u1", 9000, "anonymous"),
                              NoStr, NoStr, NoStr, NoStr, NoStr))
TokLinked1 ==
    TokWithClaims(WithProfile(Claims(9000, 4, ProjectId, GoodIss, "u1", 5, "google.com"),
                              "ann@x.io", "true", "Ann", "a.png", "+1"))
TokEpoch1 ==
    TokWithClaims(WithProfile(Claims(9000, 4, ProjectId, GoodIss, "u1", 0, "password"),
                              NoStr, "false", "Bob", NoStr, NoStr))
ProfileTokens == {TokAnon1, TokLinked1, TokEpoch1, TokGood1, TokGood2}

\* verifyToken calls one after another with these tokens.
NextProfile ==
    \/ \E token \in ProfileTokens : Begin(1, token)
    \/ StepWith(1, KeySetResponses)

SpecProfile == Init /\ [][NextProfile]_vars

\* The row of the uid in the table (the uid has one).
RowOfUid(table, uid) == table[CHOOSE i \in UsersByUid(table, uid) : TRUE]
PayloadOf(p) == parseJwt(tok[p]).payload

\* C29: after every successful verifyToken call the stored user of the
\* token's sub has its anonymous flag true if and only if the token's
\* sign_in_provider is "anonymous", also for a user verified before with an
\* anonymous token and now with a token of another provider.
C29_AnonymousFlag ==
    \A p \in Procs : pc[p] = "done" =>
        /\ UsersByUid(users, UidOf(p)) # {}
        /\ RowOfUid(users, UidOf(p)).isAnonymous = "true"
              <=> PayloadOf(p).sign_in_provider = "anonymous"

\* C29, what the upsert of a call does to the flag: an anonymous token sets
\* it to true, a token of another provider leaves it as it was stored (not
\* set for a new user).
C29_AnonymousFlagSticky ==
    [][\A p \in Procs : UpsertByCall(p) =>
          /\ UsersByUid(users', UidOf(p)) # {}
          /\ RowOfUid(users', UidOf(p)).isAnonymous =
                IF PayloadOf(p).sign_in_provider = "anonymous" THEN "true"
                ELSE IF UsersByUid(users, UidOf(p)) = {} THEN NoStr
                ELSE RowOfUid(users, UidOf(p)).isAnonymous]_vars

\* C29: a user verified with an anonymous token and then with a token of a
\* linked provider is still stored as anonymous.
C29_StillAnonymous ==
    /\ pc[1] = "done" /\ tok[1] = TokLinked1 /\ starts = 2
    /\ Len(users) = 1 /\ users[1].firebaseUid = "u1"
    /\ users[1].providerId = "google.com" /\ users[1].isAnonymous = "true"

\* C29: a user verified with an anonymous token is stored as anonymous, one
\* verified with another provider's token only is not.
C29_FlagSet ==
    /\ pc[1] = "done" /\ tok[1] = TokGood1 /\ starts = 2 /\ Len(users) = 2
    /\ users[1].firebaseUid = "u2" /\ users[1].isAnonymous = "true"
    /\ users[2].firebaseUid = "u1" /\ users[2].isAnonymous = NoStr

\* The fields of a stored user that an upsert writes from the payload, with
\* the payload field each comes from. auth_time is a number (Undef when
\* absent), written in milliseconds; the others are written as they are.
Supplied(payload, field) ==
    IF field = "auth_time" THEN payload.auth_time # Undef
    ELSE payload[field] # NoStr

\* What the upsert of a call wrote to the row of an existing user, field by
\* field: stamped(auth_time) tells whether the payload's auth_time counts as
\* supplied.
ProfileEffect(old, new, payload, stamped) ==
    /\ new.email = IF Supplied(payload, "email") THEN payload.email ELSE old.email
    /\ new.emailVerified = IF Supplied(payload, "email_verified")
                           THEN payload.email_verified ELSE old.emailVerified
    /\ new.displayName = IF Supplied(payload, "name") THEN payload.name
                         ELSE old.displayName
    /\ new.photoURL = IF Supplied(payload, "picture") THEN payload.picture
                      ELSE old.photoURL
    /\ new.phoneNumber = IF Supplied(payload, "phone_number")
                         THEN payload.phone_number ELSE old.phoneNumber
    /\ new.providerId = IF Supplied(payload, "sign_in_provider")
                        THEN payload.sign_in_provider ELSE old.providerId
    /\ new.lastSignInTime = IF stamped THEN payload.auth_time * MsPerSecond
                            ELSE old.lastSignInTime
    /\ new.firebaseUid = old.firebaseUid
    /\ new.disabled = old.disabled
    /\ new.customClaims = old.customClaims
    /\ new.id = old.id

\* C30: on an upsert of an existing user every profile field the verified
\* payload supplies (email, email_verified, name, picture, phone_number,
\* sign_in_provider, auth_time * 1000 as lastSignInTime) overwrites the
\* stored field, every field it does not supply keeps its stored value, and
\* firebaseUid, disabled and customClaims are not changed.
C30_ProfileOverwrite ==
    [][\A p \in Procs :
          (UpsertByCall(p) /\ UsersByUid(users, UidOf(p)) # {}) =>
              /\ UsersByUid(users', UidOf(p)) = UsersByUid(users, UidOf(p))
              /\ ProfileEffect(RowOfUid(users, UidOf(p)), RowOfUid(users', UidOf(p)),
                               PayloadOf(p), Supplied(PayloadOf(p), "auth_time"))]_vars

\* C30, what the upsert does: the same, but an auth_time of 0 is passed as
\* no lastSignInTime and the stored one is kept.
C30_ProfileOverwriteNonZero ==
    [][\A p \in Procs :
          (UpsertByCall(p) /\ UsersByUid(users, UidOf(p)) # {}) =>
              /\ UsersByUid(users', UidOf(p)) = UsersByUid(users, UidOf(p))
              /\ ProfileEffect(RowOfUid(users, UidOf(p)), RowOfUid(users', UidOf(p)),
                               PayloadOf(p),
                               PayloadOf(p).auth_time \notin {Undef, 0})
              /\ \A i \in DOMAIN users :
                    users[i].firebaseUid # UidOf(p) => users'[i] = users[i]]_vars

\* C30: a user stored with lastSignInTime 5000 was verified again with a
\* token whose auth_time is 0; the name and the email flag of that token are
\* stored, the email it does not carry is kept, lastSignInTime is still 5000.
C30_EpochNotStored ==
    /\ pc[1] = "done" /\ tok[1] = TokEpoch1 /\ starts = 2
    /\ Len(users) = 1 /\ users[1].firebaseUid = "u1"
    /\ users[1].displayName = "Bob" /\ users[1].emailVerified = "false"
    /\ users[1].email = "ann@x.io" /\ users[1].lastSignInTime = 5000

\* C30: a user stored by one token was verified again with a token that
\* supplies every profile field, and each stored field is the token's.
C30_Overwritten ==
    /\ pc[1] = "done" /\ tok[1] = TokLinked1 /\ starts = 2
    /\ Len(users) = 1 /\ users[1].firebaseUid = "u1"
    /\ users[1].email = "ann@x.io" /\ users[1].displayName = "Ann"
    /\ users[1].photoURL = "a.png" /\ users[1].phoneNumber = "+1"
    /\ users[1].providerId = "google.com" /\ users[1].lastSignInTime = 5000
    /\ users[1].emailVerified = "true"

\* --------------------------------------------------------- base64urlDecode
\* The base64 alphabet: the character of sextet v is Alphabet[v + 1].
Alphabet ==
    <<"A","B","C","D","E","F","G","H","I","J","K","L","M","N","O","P",
      "Q","R","S","T","U","V","W","X","Y","Z","a","b","c","d","e","f",
      "g","h","i","j","k","l","m","n","o","p","q","r","s","t","u","v",
      "w","x","y","z","0","1","2","3","4","5","6","7","8","9","+","/">>
SextetOf(c) == CHOOSE v \in 0..63 : Alphabet[v + 1] = c
InAlphabet(c) == \E v \in 0..63 : Alphabet[v + 1] = c

\* str.replace(/x/g, y) on a text, a sequence of characters.
ReplaceAll(text, x, y) == [i \in DOMAIN text |-> IF text[i] = x THEN y ELSE text[i]]

\* str.replace(/=+$/, ""): the text without its trailing '=' characters.
RECURSIVE StripPadding(_)
StripPadding(text) ==
    IF text # <<>> /\ text[Len(text)] = "="
        THEN StripPadding(SubSeq(text, 1, Len(text) - 1))
    ELSE text

\* btoa: each 3 bytes give 4 characters; 1 or 2 bytes left over give 2 or 3
\* characters and '=' up to 4.
RECURSIVE btoa(_)
btoa(bytes) ==
    IF bytes = <<>> THEN <<>>
    ELSE IF Len(bytes) = 1
        THEN <<Alphabet[(bytes[1] \div 4) + 1],
               Alphabet[((bytes[1] % 4) * 16) + 1], "=", "=">>
    ELSE IF Len(bytes) = 2
        THEN <<Alphabet[(bytes[1] \div 4) + 1],
               Alphabet[((bytes[1] % 4) * 16 + bytes[2] \div 16) + 1],
               Alphabet[((bytes[2] % 16) * 4) + 1], "=">>
    ELSE <<Alphabet[(bytes[1] \div 4) + 1],
           Alphabet[((bytes[1] % 4) * 16 + bytes[2] \div 16) + 1],
           Alphabet[((bytes[2] % 16) * 4 + bytes[3] \div 64) + 1],
           Alphabet[(bytes[3] % 64) + 1]>>
         \o btoa(SubSeq(bytes, 4, Len(bytes)))

\* The test helper base64urlEncode: btoa, '+' to '-', '/' to '_', no padding.
base64urlEncode(bytes) ==
    StripPadding(ReplaceAll(ReplaceAll(btoa(bytes), "+", "-"), "/", "_"))

\* The bytes of a text of alphabet characters: 4 characters give 3 bytes;
\* 2 or 3 left over give 1 or 2 bytes, the bits beyond them are dropped.
RECURSIVE DecodeSextets(_)
DecodeSextets(text) ==
    IF Len(text) < 2 THEN <<>>
    ELSE LET v(i) == SextetOf(text[i]) IN
         IF Len(text) = 2 THEN <<v(1) * 4 + v(2) \div 16>>
         ELSE IF Len(text) = 3
             THEN <<v(1) * 4 + v(2) \div 16, (v(2) % 16) * 16 + v(3) \div 4>>
         ELSE <<v(1) * 4 + v(2) \div 16, (v(2) % 16) * 16 + v(3) \div 4,
                (v(3) % 4) * 64 + v(4)>>
              \o DecodeSextets(SubSeq(text, 5, Len(text)))

\* atob (forgiving-base64 decode): a text whose length is a multiple of 4
\* loses one or two trailing '='; it throws when the length is then 1 more
\* than a multiple of 4 or a character is outside the alphabet.
atob(text) ==
    LET n == Len(text)
        pad == IF n % 4 = 0 /\ n > 0 /\ text[n] = "="
                   THEN IF text[n - 1] = "=" THEN 2 ELSE 1
               ELSE 0
        data == SubSeq(text, 1, n - pad)
    IN  IF Len(data) % 4 = 1 \/ \E i \in DOMAIN data : ~InAlphabet(data[i])
            THEN [ok |-> FALSE, bytes |-> <<>>]
        ELSE [ok |-> TRUE, bytes |-> DecodeSextets(data)]

\* while (base64.length % 4 !== 0) base64 += "=".
RECURSIVE PadTo4(_)
PadTo4(text) == IF Len(text) % 4 = 0 THEN text ELSE PadTo4(Append(text, "="))

\* base64urlDecode without the replacement of '-' and '_'.
base64urlDecodeStandard(str) == atob(PadTo4(str))

\* base64urlDecode(str): '-' to '+', '_' to '/', pad with '=', atob, and the
\* char code of every character of the result.
base64urlDecode(str) == atob(PadTo4(ReplaceAll(ReplaceAll(str, "-", "+"), "_", "/")))

\* Bytes whose encodings use the characters '-', '_' and the ends of the
\* alphabet, and the byte sequences of at most MaxBytes of them.
ByteValues == {0, 97, 251, 255, 63}
RECURSIVE SeqsUpTo(_, _)
SeqsUpTo(S, n) ==
    IF n = 0 THEN {<<>>}
    ELSE LET shorter == SeqsUpTo(S, n - 1) IN
         shorter \cup {Append(q, x) : q \in shorter, x \in S}
ByteSeqs == SeqsUpTo(ByteValues, MaxBytes)

NoDecode == [done |-> FALSE, encoded |-> <<>>, ok |-> FALSE, bytes |-> <<>>]

InitBase64 ==
    /\ InitStore
    /\ arg \in ByteSeqs
    /\ ret = NoDecode

\* base64urlDecode(base64urlEncode(arg)).
RunBase64urlDecode ==
    /\ ~ret.done
    /\ LET encoded == base64urlEncode(arg)
           out == base64urlDecode(encoded)
       IN  ret' = [done |-> TRUE, encoded |-> encoded, ok |-> out.ok,
                   bytes |-> out.bytes]
    /\ UNCHANGED <<counters, tables, pc, locals, steps, hist, lastWrite,
                   failedFetches, arg>>

NextBase64 == RunBase64urlDecode

SpecBase64 == InitBase64 /\ [][NextBase64]_vars

\* C31: for every byte sequence b, base64urlDecode of the unpadded base64url
\* encoding of b (alphabet '-' and '_', no '=') does not throw and returns
\* exactly b.
C31_Base64RoundTrip ==
    ret.done =>
        /\ \A i \in DOMAIN ret.encoded : ret.encoded[i] \notin {"=", "+", "/"}
        /\ ret.ok
        /\ ret.bytes = arg

\* C31 witness: two bytes whose encoding has 3 characters, '-' and '_' among
\* them and no padding, have been decoded to themselves.
C31_Witness ==
    /\ ret.done /\ arg = <<251, 255>>
    /\ ret.encoded = <<"-", "_", "8">>
    /\ ret.ok /\ ret.bytes = <<251, 255>>

\* ------------------------------------------------------- signature round trip
\* The token with one byte of its decoded signature changed: the segment
\* still decodes, and no key's private half produced these bytes.
AlterSignature(token) == [token EXCEPT !.s = Sig(token.s.dec, "forged")]
SignedTokens == {TokGood1, TokGood2}
AlteredTokens == {AlterSignature(token) : token \in SignedTokens}

\* verifyToken calls one after another with signed tokens and their altered
\* copies, with any answer of the endpoint, as time passes.
NextSignature ==
    \/ \E token \in SignedTokens \cup AlteredTokens : Begin(1, token)
    \/ Step(1)
    \/ \E d \in TickSizes : Tick(d)

SpecSignature == Init /\ [][NextSignature]_vars

\* The key of the token's kid in a key set is the public half of the key
\* that signed the token.
HasMatchingKey(keySet, token) ==
    \E i \in DOMAIN keySet.keys :
        /\ keySet.keys[i].kid = token.h.kid
        /\ keySet.keys[i].mat = token.s.signer

C32_Accepted ==
    /\ pc[1] = "done" /\ tok[1] = TokGood1
    /\ HasMatchingKey(hist[1].keySet, tok[1])
    /\ result[1].firebaseUid = "u1"

\* ------------------------------------------------- sessions and their users
\* The session refers to a stored user of its firebaseUid.
RefersToUser(s) ==
    \E j \in DOMAIN users :
        users[j].id = s.userId /\ users[j].firebaseUid = s.firebaseUid

\* C33: in every reachable state, however verifyToken (whose user upsert and
\* session creation are separate transactions) and deleteUser interleave,
\* the userId of every session is the id of a stored user whose firebaseUid
\* is the session's firebaseUid.
C33_SessionsReferToUsers ==
    \A i \in DOMAIN sessions : RefersToUser(sessions[i])

\* C33, what the code keeps: the userId of every session is an id that was
\* given to a user of the session's firebaseUid, whose row is stored still
\* or has been deleted; and a session that refers to a stored user stops
\* doing so in no step.
C33_SessionsReferToIssuedIds ==
    /\ [](\A i \in DOMAIN sessions :
             /\ sessions[i].userId \in 1..(nextUserId - 1)
             /\ \A j \in DOMAIN users :
                   users[j].id = sessions[i].userId
                       => users[j].firebaseUid = sessions[i].firebaseUid)
    /\ [][\A s \in RowsOf(sessions) \cap RowsOf(sessions') :
             RefersToUser(s) => RefersToUser(s)']_vars

\* C33: deleteUser committed between the upsert and the session creation of
\* a call, and the call has returned leaving a session of a user that is not
\* stored.
C33_DanglingSession ==
    /\ pc[1] = "done" /\ tok[1] = TokGood1 /\ starts = 1
    /\ users = <<>>
    /\ Len(sessions) = 1 /\ sessions[1].firebaseUid = "u1" /\ sessions[1].userId = 1
    /\ ret.op = "deleteUser"

\* C33: calls of two users have returned and every session refers to its
\* stored user.
C33_AllRefer ==
    /\ pc[1] = "done" /\ starts = 2 /\ Len(users) = 2 /\ Len(sessions) = 2
    /\ \A i \in DOMAIN sessions : RefersToUser(sessions[i])

\* ------------------------------------------- getSession and creation order
\* C34: getSession(uid) returns a session whenever at least one session with
\* firebaseUid = uid and expiresAt >= now is stored, whatever the order in
\* which the sessions of the uid were created and whatever their expiry
\* times.
C34_GetSessionAnyOrder ==
    [][Called("getSession") =>
          ((\E i \in SessionsOf(sessions, arg'.uid) : sessions[i].expiresAt >= clock)
              => ret'.session # NoSession)]_vars

\* C34, what getSession does: it returns a session whenever the session of
\* the uid that was created last has expiresAt >= now, and then that one.
C34_GetSessionLastCreated ==
    [][Called("getSession") =>
          \A i \in SessionsOf(sessions, arg'.uid) :
              (/\ sessions[i].expiresAt >= clock
               /\ \A j \in SessionsOf(sessions, arg'.uid) : j <= i)
                  => ret'.session = sessions[i]]_vars

\* C34: the session of the uid created first ends late, the one created
\* after it has expired, and getSession has returned null.
C34_OlderLiveSessionMissed ==
    /\ ret.op = "getSession" /\ arg.uid = "u1" /\ ret.session = NoSession
    /\ \E i, j \in SessionsOf(sessions, "u1") :
          /\ i < j
          /\ sessions[i].expiresAt >= clock
          /\ sessions[j].expiresAt < clock

\* C34: the session of the uid created first ends soon and is still live,
\* the one created after it ends late, and getSession has returned the
\* latter.
C34_LastCreatedReturned ==
    /\ ret.op = "getSession" /\ arg.uid = "u1"
    /\ Len(sessions) = 2
    /\ sessions[1].firebaseUid = "u1" /\ sessions[1].expiresAt = 6000
    /\ sessions[2].firebaseUid = "u1" /\ sessions[2].expiresAt = 9000000
    /\ clock < 6000
    /\ ret.session = sessions[2]

\* ------------------------------------------------- what the key cache holds
\* The body parses as a JWK set with a keys array.
IsKeySet(body) == body.json /\ body.hasKeys

\* C35: the key cache is only ever replaced by a response body that parses
\* as a JWK set with a keys array: a success-status response with another
\* body leaves the cache as it is, so no call that finds a fresh cached row
\* fails for what that row holds.
C35_CacheOnlyKeySets ==
    /\ [](\A i \in DOMAIN publicKeyCache : IsKeySet(publicKeyCache[i].keys))
    /\ [][\A p \in Procs :
             (pc[p] = "setCache" /\ ~IsKeySet(response[p].body))
                 => publicKeyCache' = publicKeyCache]_vars
    /\ [](\A p \in Procs :
             FoundFresh(p) => reason[p] \notin {"SyntaxError", "TypeError"})

\* C35, what the code does: the body of every success-status response
\* replaces the cache, a key set or not, with the TTL of its header; nothing
\* else writes the cache; and a call that finds a fresh row fails at the key
\* selection exactly when that row holds no key set or no key of its kid.
C35_CacheHoldsLastBody ==
    /\ [][\A p \in Procs :
             /\ (pc[p] = "setCache" /\ pc'[p] # "setCache")
                   => /\ response[p].status = "ok"
                      /\ publicKeyCache' =
                            <<CacheRow(response[p].body, now[p],
                                       now[p] + maxAgeOf(response[p].cacheControl)
                                                  * MsPerSecond)>>
             /\ publicKeyCache' # publicKeyCache => \E q \in Procs : pc[q] = "setCache"]_vars
    /\ [](\A p \in Procs :
             (FoundFresh(p) /\ Performed(p, "select")) =>
                 (reason[p] \in {"SyntaxError", "TypeError"}
                     <=> ~IsKeySet(hist[p].rowRead.keys)))

\* C35: a success-status response without a key set was cached by one call,
\* and the next call, with a good token, found that row fresh, fetched
\* nothing and failed at the key selection.
C35_PoisonedCache ==
    /\ starts = 2 /\ tok[1] = TokGood1
    /\ FoundFresh(1) /\ ~Performed(1, "fetch")
    /\ pc[1] = "failed" /\ reason[1] = "SyntaxError"
    /\ Len(publicKeyCache) = 1 /\ publicKeyCache[1].keys = BodyJunk
    /\ publicKeyCache[1].expiresAt > clock + 3000000

\* C35: a key set was cached and the next call verified against it.
C35_KeySetCached ==
    /\ starts = 2 /\ tok[1] = TokGood1 /\ pc[1] = "done"
    /\ FoundFresh(1) /\ publicKeyCache[1].keys = BodyA

\* --------------------------------------------------- readers of the key cache
\* C36: once the key cache has been written, _getCachedPublicKeys returns a
\* row in every later state: the delete-all-then-insert of
\* _setCachedPublicKeys is one transaction, and no reader sees the table
\* with zero rows between the delete and the insert.
C36_CacheNeverEmptied ==
    /\ [](lastWrite # NoArgs => getCachedPublicKeys(publicKeyCache) # NoRow)
    /\ [][publicKeyCache # <<>> => Len(publicKeyCache') = 1]_vars
    /\ [][\A p \in Procs :
             (pc[p] = "query" /\ pc'[p] = "check" /\ lastWrite # NoArgs)
                 => /\ cachedKeys'[p].present
                    /\ cachedKeys'[p] = LastWrittenRow]_vars

\* C36 witness: a call wrote the cache, a direct write replaced its row
\* later, and the next call has read the row of that write.
C36_Witness ==
    /\ starts = 2 /\ pc[1] = "check" /\ Len(users) = 1
    /\ lastWrite.by = 0 /\ lastWrite.fetchedAt = StartClock + 1000
    /\ lastWrite.keys = BodyB
    /\ cachedKeys[1] = LastWrittenRow

\* --------------------------------------------- sessions at their insertion
\* C37: every session row inserted by verifyToken is unexpired when it is
\* inserted, its expiresAt being greater than the clock at the insertion,
\* whatever time passes between the claims check and the session creation of
\* the call.
C37_SessionLiveAtInsert ==
    [][\A p \in Procs : SessionByCall(p) =>
          sessions'[Len(sessions')].expiresAt > clock]_vars

\* C37, what the code ensures: the expiresAt of the inserted session is
\* greater than the time of the claims check of the call, so the session is
\* unexpired at its insertion when the insertion falls in the second of the
\* claims check; exp is not looked at again after that check.
C37_SessionLiveAtClaimsCheck ==
    [][\A p \in Procs : SessionByCall(p) =>
          LET new == sessions'[Len(sessions')] IN
          /\ hist[p].claimsAt # Undef
          /\ new.expiresAt = Parsed(p).payload.exp * MsPerSecond
          /\ new.expiresAt > hist[p].claimsAt * MsPerSecond
          /\ clock \div MsPerSecond = hist[p].claimsAt => new.expiresAt > clock]_vars

\* C37: a token that expires a half second after its claims check had its
\* session inserted a second after that check, expired already, and the call
\* has returned the user.
C37_BornExpired ==
    /\ pc[1] = "done" /\ tok[1] = TokShort
    /\ hist[1].claimsAt = StartClock \div MsPerSecond
    /\ clock = StartClock + 1000
    /\ Len(sessions) = 1 /\ sessions[1].expiresAt = 6000
    /\ sessions[1].createdAt = clock
    /\ result[1].firebaseUid = "u1"

\* C37: the same token's session inserted in the second of its claims check
\* is unexpired.
C37_BornLive ==
    /\ pc[1] = "done" /\ tok[1] = TokShort /\ clock = StartClock
    /\ Len(sessions) = 1 /\ sessions[1].expiresAt = 6000
    /\ sessions[1].createdAt = StartClock

\* ------------------------------------------------------ FirebaseAuthProvider
\* The provider keeps its state in arg: the React state, the two refs and
\* auth.currentUser; ret holds the doVerify calls in flight and what has
\* been observed of the run.  "null" stands for null.
NoUid == "null"
AuthState(isLoading, isAuthenticated, user, firebaseUid, error) ==
    [isLoading |-> isLoading, isAuthenticated |-> isAuthenticated, user |-> user,
     firebaseUid |-> firebaseUid, error |-> error]
SignedOutState == AuthState(FALSE, FALSE, NoUid, NoUid, NoUid)

Provider(st, last, timer, current) ==
    [state |-> st, lastVerifiedUid |-> last, refreshTimerRef |-> timer,
     currentUser |-> current]

\* A doVerify(user) call in flight: who started it, and whether the
\* listener has reported a sign-out since it started.
Verification(uid, by) == [uid |-> uid, by |-> by, stale |-> FALSE]

\* What has been observed: the calls in flight, the number of events so
\* far, whether the last event was a sign-out, whether a call started before
\* that sign-out has succeeded after it, the uid of the present run of
\* signed-in events and the verifications the listener started in it, and
\* the last step.
Observed(pending, events, signedOut, late, runUid, runStarts, op) ==
    [pending |-> pending, events |-> events, signedOut |-> signedOut, late |-> late,
     runUid |-> runUid, runStarts |-> runStarts, op |-> op]

InitProvider ==
    /\ InitStore
    /\ arg = Provider(AuthState(TRUE, FALSE, NoUid, NoUid, NoUid), NoUid, NoUid, NoUid)
    /\ ret = Observed(<<>>, 0, FALSE, FALSE, NoUid, 0, "mount")

UNCHANGED_provider ==
    UNCHANGED <<counters, tables, pc, locals, steps, hist, lastWrite, failedFetches>>

\* The listener's test lastVerifiedUid.current !== firebaseUser.uid.
listenerVerifies(uid) == arg.lastVerifiedUid # uid

\* onAuthStateChanged's callback with a signed-in user: a verification is
\* started for a uid other than the one verified last, and the refresh
\* timer is set for this user.
SignedIn(uid) ==
    LET verify == listenerVerifies(uid)
        sameRun == ret.runUid = uid
    IN
    /\ ret.events < MaxEvents
    /\ verify => Len(ret.pending) < MaxPending
    /\ arg' = Provider(IF verify THEN [arg.state EXCEPT !.isLoading = TRUE]
                       ELSE arg.state,
                       arg.lastVerifiedUid, uid, uid)
    /\ ret' = Observed(IF verify THEN Append(ret.pending, Verification(uid, "listener"))
                       ELSE ret.pending,
                       ret.events + 1, FALSE, FALSE, uid,
                       (IF sameRun THEN ret.runStarts ELSE 0) + (IF verify THEN 1 ELSE 0),
                       "signedIn")
    /\ UNCHANGED_provider

\* onAuthStateChanged's callback with null: the refs are cleared and the
\* state is set to signed out.
SignedOut ==
    /\ ret.events < MaxEvents
    /\ arg' = Provider(SignedOutState, NoUid, NoUid, NoUid)
    /\ ret' = Observed([i \in DOMAIN ret.pending |-> [ret.pending[i] EXCEPT !.stale = TRUE]],
                       ret.events + 1, TRUE, FALSE, NoUid, 0, "signedOut")
    /\ UNCHANGED_provider

\* The 55-minute interval fires: doVerify for the user the timer was set for.
RefreshTimer ==
    /\ arg.refreshTimerRef # NoUid
    /\ Len(ret.pending) < MaxPending
    /\ ret' = [ret EXCEPT !.pending = Append(@, Verification(arg.refreshTimerRef, "timer")),
                          !.op = "timer"]
    /\ arg' = arg
    /\ UNCHANGED_provider

\* refreshAuth(): doVerify for auth.currentUser when there is one.
RefreshAuth ==
    /\ arg.currentUser # NoUid
    /\ Len(ret.pending) < MaxPending
    /\ ret' = [ret EXCEPT !.pending = Append(@, Verification(arg.currentUser, "refreshAuth")),
                          !.op = "refreshAuth"]
    /\ arg' = arg
    /\ UNCHANGED_provider

RemoveAt(seq, i) == SubSeq(seq, 1, i - 1) \o SubSeq(seq, i + 1, Len(seq))

\* doVerify after its awaits: getIdToken and the verifyToken action have
\* resolved (ok) or one of them has rejected.
doVerify(i, ok) ==
    LET v == ret.pending[i] IN
    /\ i \in DOMAIN ret.pending
    /\ arg' = IF ok
                  THEN [arg EXCEPT !.lastVerifiedUid = v.uid,
                                   !.state = AuthState(FALSE, TRUE, arg.state.user,
                                                       v.uid, NoUid)]
              ELSE [arg EXCEPT !.state = AuthState(FALSE, FALSE, NoUid, NoUid, "error")]
    /\ ret' = [ret EXCEPT !.pending = RemoveAt(@, i),
                          !.late = @ \/ (ok /\ v.stale /\ ret.signedOut),
                          !.op = IF ok THEN "verified" ELSE "rejected"]
    /\ UNCHANGED_provider

\* The effect on the getUser query: the user of state.firebaseUid arrives.
UpdateUser ==
    /\ arg.state.isAuthenticated
    /\ arg.state.user # arg.state.firebaseUid
    /\ arg' = [arg EXCEPT !.state.user = arg.state.firebaseUid]
    /\ ret' = [ret EXCEPT !.op = "user"]
    /\ UNCHANGED_provider

\* The provider after mount: auth-state events, timer ticks, refreshAuth
\* calls and the completions of verifications, in any order.
NextProvider ==
    \/ \E uid \in Uids : SignedIn(uid)
    \/ SignedOut
    \/ RefreshTimer
    \/ RefreshAuth
    \/ \E i \in 1..MaxPending, ok \in BOOLEAN : doVerify(i, ok)
    \/ UpdateUser

SpecProvider == InitProvider /\ [][NextProvider]_vars

\* C38: after the listener has reported a sign-out the state stays at
\* isAuthenticated = false with firebaseUid = null until the listener reports
\* a signed-in user, also when a verification started before the sign-out
\* completes after it.
C38_SignedOutStays ==
    ret.signedOut => (~arg.state.isAuthenticated /\ arg.state.firebaseUid = NoUid)

\* C38, what the provider does: the sign-out event sets the state to signed
\* out, and it stays so until the next signed-in event unless a verification
\* that was in flight at the sign-out succeeds, which sets the state to
\* authenticated for its uid.
C38_SignedOutUnlessLate ==
    /\ []((ret.signedOut /\ ~ret.late)
             => (~arg.state.isAuthenticated /\ arg.state.firebaseUid = NoUid))
    /\ [][ret'.op = "signedOut" /\ ret'.events = ret.events + 1
             => arg'.state = SignedOutState /\ arg'.lastVerifiedUid = NoUid]_vars
    /\ [][(ret.signedOut /\ ret'.signedOut
              /\ ~arg.state.isAuthenticated /\ arg'.state.isAuthenticated)
             => (ret'.late /\ \E i \in DOMAIN ret.pending :
                    ret.pending[i].stale /\ arg'.state.firebaseUid = ret.pending[i].uid)]_vars

\* C38: a verification of u1 started by the listener was in flight when the
\* sign-out was reported and has succeeded after it; the state is
\* authenticated as u1.
C38_LateVerification ==
    /\ ret.signedOut /\ ret.op = "verified" /\ ret.events = 2
    /\ arg.state.isAuthenticated /\ arg.state.firebaseUid = "u1"
    /\ arg.lastVerifiedUid = "u1" /\ arg.currentUser = NoUid

\* C38: a user was verified, the sign-out was reported with nothing in
\* flight, and the state is signed out.
C38_SignedOutClean ==
    /\ ret.signedOut /\ ~ret.late /\ ret.events = 2 /\ ret.pending = <<>>
    /\ arg.state = SignedOutState

\* C39: the listener starts a verification only for a new user or the first
\* load: over any sequence of auth-state events that report the same
\* signed-in uid it starts at most one verification for that uid, also when
\* the second event arrives before the first verification has finished.
C39_OneVerificationPerUid ==
    ret.runStarts <= 1

\* C39, what the listener does: it starts a verification for exactly the
\* events whose uid is not the uid verified last, which a verification sets
\* only when it succeeds.
C39_VerifiesUnlessVerified ==
    [][\A uid \in Uids :
          (ret'.op = "signedIn" /\ ret'.events = ret.events + 1 /\ ret'.runUid = uid)
              => /\ (Len(ret'.pending) = Len(ret.pending) + 1) <=> arg.lastVerifiedUid # uid
                 /\ arg.lastVerifiedUid = uid => ret'.pending = ret.pending
                 /\ arg'.lastVerifiedUid = arg.lastVerifiedUid]_vars

\* C39: two events reported u1, the second before the verification of the
\* first had finished, and two verifications of u1 started by the listener
\* are in flight.
C39_DoubleVerification ==
    /\ ret.events = 2 /\ ret.runUid = "u1" /\ ret.runStarts = 2
    /\ ret.pending = <<Verification("u1", "listener"), Verification("u1", "listener")>>
    /\ arg.lastVerifiedUid = NoUid

\* C39: the verification of u1 succeeded and a second event reporting u1
\* started none.
C39_NoSecondVerification ==
    /\ ret.events = 2 /\ ret.runUid = "u1" /\ ret.runStarts = 1
    /\ ret.op = "signedIn" /\ ret.pending = <<>>
    /\ arg.lastVerifiedUid = "u1" /\ arg.state.isAuthenticated

====
